---- MODULE Spec2Model ----
(***************************************************************************)
(* Model of the GBA emulator core of native_emerald: the frame driver      *)
(* (emu_frame in main.c), the interrupt controller, the timer unit and the *)
(* ARM7TDMI interpreter's control-flow / status-register behaviour         *)
(* (cpu_step, execute_arm, execute_thumb, cpu_handle_interrupt), and the   *)
(* DMA controller (dma_execute, dma_write_control, dma_trigger).           *)
(*                                                                         *)
(* Representation.  u32 values are kept below 2^31 (addresses up to        *)
(* 0x10000000 are all the code distinguishes).  cpsr and spsr hold the     *)
(* control byte of the status word (bits 7..0: I, F, T, mode); the         *)
(* instructions modelled here do not touch bits 31..8.  Registers other    *)
(* than R14 and R15, and the contents of ROM/RAM, are inputs: an           *)
(* instruction carries the value of its source register or loaded word.    *)
(* regs holds R0..R3 and R13, the registers the BIOS calls work on.        *)
(***************************************************************************)
EXTENDS Integers, Naturals, Sequences, FiniteSets, TLC

VARIABLES emu, cpu, interrupts, timers, gfx, hist, dma, mem, input, rtc, regs

vars == <<emu, cpu, interrupts, timers, gfx, hist, dma, mem, input, rtc, regs>>

----------------------------------------------------------------------------
(* Bounds of the model *)

\* Cycle budget of one scanline in the frame-driver specification
\* (const u32 CYCLES_PER_SCANLINE = 1232 in the source, scaled down).
ScanlineBudget == 4

\* Cycle budget of the single scanline explored by the CPU specification.
CpuBudget == 14

\* Bytes of straight-line code at the start of each 256-byte block of
\* program memory; the word after them branches back to the block start.
CodeLen == 4

\* Largest word count written to a DMAxCNT_L register.
MaxDmaCount == 2

\* Triggered transfers are followed while the internal addresses of the
\* channel are at most this many bytes away from the programmed ones.
DmaSpan == 8

\* Bytes of EWRAM, from its start, whose contents are kept.
EwramBytes == 8

\* Number of memory-changing bus operations followed.
BusSteps == 3

----------------------------------------------------------------------------
(* Program constants *)

TOTAL_SCANLINES == 228
VBLANK_LINE     == 160

INT_VBLANK == 1
INT_HBLANK == 2
INT_VCOUNT == 4
INT_TIMER0 == 8

FLAG_T == 32
FLAG_I == 128

TIMER_ENABLE    == 128
TIMER_IRQ       == 64
TIMER_CASCADE   == 4
TIMER_FREQ_MASK == 3

REG_DISPSTAT == 4
REG_TM0CNT_L == 256
REG_IE       == 512
REG_IF       == 514
REG_IME      == 520

ROM_ENTRY  == \h08000000
IRQ_VECTOR == \h18

----------------------------------------------------------------------------
(* Bit arithmetic on unsigned values *)

Bit(x, n) == (x \div (2^n)) % 2

RECURSIVE BitAndN(_, _, _)
BitAndN(a, b, n) ==
    IF n = 0 THEN 0
    ELSE (a % 2) * (b % 2) + 2 * BitAndN(a \div 2, b \div 2, n - 1)

\* The AND of two 4-bit values, tabulated.
NibbleAnd == [x \in 0..15 |-> [y \in 0..15 |-> BitAndN(x, y, 4)]]

Nibble(x, k) == (x \div (16^k)) % 16

And16(a, b) ==
    NibbleAnd[Nibble(a, 0)][Nibble(b, 0)]
      + 16 * NibbleAnd[Nibble(a, 1)][Nibble(b, 1)]
      + 256 * NibbleAnd[Nibble(a, 2)][Nibble(b, 2)]
      + 4096 * NibbleAnd[Nibble(a, 3)][Nibble(b, 3)]

Or16(a, b)     == a + b - And16(a, b)
AndNot16(a, b) == a - And16(a, b)

\* x & 0xFFFFFFFE
ClearBit0(x) == x - (x % 2)

----------------------------------------------------------------------------
(* Interrupt controller (interrupts.c) *)

interrupt_init ==
    [ie |-> 0, if_flag |-> 0, ime |-> 0, dispstat |-> 0, vcount |-> 0,
     last_scanline |-> 0]

interrupt_raise(state, flag) == [state EXCEPT !.if_flag = Or16(@, flag)]

\* A store that replaces IF by the value written.
interrupt_acknowledge_store(state, flag) == [state EXCEPT !.if_flag = flag]

interrupt_acknowledge(state, flag) == [state EXCEPT !.if_flag = AndNot16(@, flag)]

interrupt_check(state) ==
    /\ state.ime % 2 = 1
    /\ And16(state.ie, state.if_flag) # 0

\* The VCount-match part of interrupt_update_vcount.
VCountMatch(state, scanline) ==
    LET vcount_setting == (state.dispstat \div 256) % 256
    IN  IF scanline = vcount_setting
        THEN LET s == [state EXCEPT !.dispstat = Or16(@, 4)]
             IN  IF Bit(s.dispstat, 5) = 1 THEN interrupt_raise(s, INT_VCOUNT) ELSE s
        ELSE [state EXCEPT !.dispstat = AndNot16(@, 4)]

\* The condition under which interrupt_update_vcount raises INT_VBLANK.
VBlankEdge_level(scanline, prev_scanline) == scanline >= VBLANK_LINE

VBlankEdge(scanline, prev_scanline) ==
    scanline = VBLANK_LINE /\ prev_scanline # VBLANK_LINE

interrupt_update_vcount(state, scanline) ==
    LET prev_scanline == state.last_scanline
        s1 == [state EXCEPT !.vcount = scanline, !.last_scanline = scanline]
        s2 == VCountMatch(s1, scanline)
    IN  IF VBlankEdge(scanline, prev_scanline)
        THEN interrupt_raise([s2 EXCEPT !.dispstat = Or16(@, 1)], INT_VBLANK)
        ELSE IF scanline = 0
             THEN [s2 EXCEPT !.dispstat = AndNot16(@, 1)]
             ELSE s2

----------------------------------------------------------------------------
(* Timer unit (timer.c).  Operators on the pair                            *)
(* P = [timers |-> TimerState, interrupts |-> InterruptState].             *)

timer_init ==
    [i \in 0..3 |->
        [counter |-> 0, reload |-> 0, control |-> 0, enabled |-> FALSE,
         irq_enable |-> FALSE, cascade |-> FALSE, prescaler |-> 1, clock |-> 0]]

get_prescaler(control) ==
    LET freq == And16(control, TIMER_FREQ_MASK)
    IN  CASE freq = 0 -> 1
          [] freq = 1 -> 64
          [] freq = 2 -> 256
          [] freq = 3 -> 1024

\* Lines 52-61: the next timer counts when timer i overflows.
CascadeNext(P, i) ==
    IF i < 3 /\ P.timers[i + 1].cascade /\ P.timers[i + 1].enabled
    THEN LET c == (P.timers[i + 1].counter + 1) % 65536
         IN  IF c = 0
             THEN [timers |-> [P.timers EXCEPT ![i + 1].counter = P.timers[i + 1].reload],
                   interrupts |->
                       IF P.timers[i + 1].irq_enable
                       THEN interrupt_raise(P.interrupts, INT_TIMER0 * (2^(i + 1)))
                       ELSE P.interrupts]
             ELSE [P EXCEPT !.timers[i + 1].counter = c]
    ELSE P

\* A tick that leaves the wrapped counter at 0 and touches nothing else.
TimerTick_noreload(P, i) ==
    [P EXCEPT !.timers[i].clock = @ - P.timers[i].prescaler,
              !.timers[i].counter = (@ + 1) % 65536]

\* One iteration of the while loop of timer_update for timer i.
TimerTick(P, i) ==
    LET t == P.timers[i]
        c == (t.counter + 1) % 65536
        P1 == [P EXCEPT !.timers[i].clock = t.clock - t.prescaler,
                        !.timers[i].counter = c]
    IN  IF c = 0
        THEN LET P2 == [P1 EXCEPT !.timers[i].counter = t.reload]
                 P3 == IF t.irq_enable
                       THEN [P2 EXCEPT !.interrupts =
                                interrupt_raise(P2.interrupts, INT_TIMER0 * (2^i))]
                       ELSE P2
             IN  CascadeNext(P3, i)
        ELSE P1

RECURSIVE TimerRun(_, _)
TimerRun(P, i) ==
    IF P.timers[i].clock >= P.timers[i].prescaler
    THEN TimerRun(TimerTick(P, i), i)
    ELSE P

\* The body of the for loop of timer_update for timer i.
TimerOne(P, i, cycles) ==
    IF ~P.timers[i].enabled THEN P
    ELSE IF P.timers[i].cascade /\ i > 0 THEN P
    ELSE TimerRun([P EXCEPT !.timers[i].clock = @ + cycles], i)

timer_update(P, cycles) ==
    TimerOne(TimerOne(TimerOne(TimerOne(P, 0, cycles), 1, cycles), 2, cycles), 3, cycles)

timer_write_control(state, timer_id, value) ==
    LET was_enabled == state[timer_id].enabled
        enabled == And16(value, TIMER_ENABLE) # 0
        t1 == [state[timer_id] EXCEPT
                  !.control = value,
                  !.enabled = enabled,
                  !.irq_enable = (And16(value, TIMER_IRQ) # 0),
                  !.cascade = (And16(value, TIMER_CASCADE) # 0),
                  !.prescaler = get_prescaler(value)]
        t2 == IF enabled /\ ~was_enabled
              THEN [t1 EXCEPT !.counter = t1.reload, !.clock = 0]
              ELSE t1
    IN  [state EXCEPT ![timer_id] = t2]

timer_write_reload(state, timer_id, value) ==
    [state EXCEPT ![timer_id] =
        IF state[timer_id].enabled
        THEN [@ EXCEPT !.reload = value]
        ELSE [@ EXCEPT !.reload = value, !.counter = value]]

----------------------------------------------------------------------------
(* Bus writes to the I/O registers (mem_write8 / 16 / 32 in memory.c)      *)

\* (old & 0xFF00) | value   or   (old & 0x00FF) | (value << 8)
ReplaceByte(old, hi, value) ==
    IF hi THEN (old % 256) + 256 * value
    ELSE (old \div 256) * 256 + value

mem_write8_io(P, offset, value) ==
    CASE offset \in {REG_DISPSTAT, REG_DISPSTAT + 1} ->
            [P EXCEPT !.interrupts.dispstat =
                ReplaceByte(@, offset = REG_DISPSTAT + 1, value)]
      [] offset \in {REG_IE, REG_IE + 1} ->
            [P EXCEPT !.interrupts.ie = ReplaceByte(@, offset = REG_IE + 1, value)]
      [] offset = REG_IF ->
            [P EXCEPT !.interrupts = interrupt_acknowledge(@, value)]
      [] offset = REG_IF + 1 ->
            [P EXCEPT !.interrupts = interrupt_acknowledge(@, value * 256)]
      [] offset \in {REG_IME, REG_IME + 1} ->
            [P EXCEPT !.interrupts.ime = ReplaceByte(@, offset = REG_IME + 1, value)]
      [] offset >= REG_TM0CNT_L /\ offset <= REG_TM0CNT_L + 15 ->
            LET timer_id == (offset - REG_TM0CNT_L) \div 4
                reg == (offset - REG_TM0CNT_L) % 4
            IN  IF reg \in {0, 1}
                THEN \* the old value is read back from the live counter
                     [P EXCEPT !.timers = timer_write_reload(@, timer_id,
                          ReplaceByte(P.timers[timer_id].counter, reg = 1, value))]
                ELSE [P EXCEPT !.timers = timer_write_control(@, timer_id,
                          ReplaceByte(P.timers[timer_id].control, reg = 3, value))]
      [] OTHER -> P

mem_write16_io(P, offset, value) ==
    mem_write8_io(mem_write8_io(P, offset, value % 256), offset + 1, value \div 256)

mem_write32_io(P, offset, value) ==
    mem_write16_io(mem_write16_io(P, offset, value % 65536), offset + 2, value \div 65536)

----------------------------------------------------------------------------
(* ARM7TDMI interpreter (cpu_core.c)                                       *)

ValidModes == {16, 17, 18, 19, 23, 27, 31}

BIOS_SIZE     == \h4000
EWRAM_START   == \h02000000
IO_START      == \h04000000
ROM_END       == \h0E000000
ADDR_LIMIT    == \h10000000
SOFTRESET_CPSR == \hD3

cpu_init ==
    [r15 |-> 0, r14 |-> 0, cpsr |-> 0, spsr |-> 0,
     thumb_mode |-> FALSE, halted |-> FALSE]

cpu_reset == [cpu_init EXCEPT !.r15 = ROM_ENTRY + 8, !.cpsr = 31]

\* R0..R3 and R13 of the register file, as cpu_reset leaves them.
SP_DEFAULT == \h03007F00

regs_reset == [r0 |-> 0, r1 |-> 0, r2 |-> 0, r3 |-> 0, r13 |-> SP_DEFAULT]

\* An instruction: the operation, and the values of its operands.
Instr(op, a, b) == [op |-> op, a |-> a, b |-> b]

\* The outcome of running code on the CPU: the new CPU state, the new state
\* of the devices on the bus, the cycles charged, and what was executed.
Outcome(c, P, cycles, op) == [cpu |-> c, bus |-> P, cycles |-> cycles, op |-> op]

\* The target check of BX, MOV PC and LDR PC in execute_arm.
InvalidTarget(addr) ==
    addr >= ADDR_LIMIT \/ (addr >= IO_START /\ addr < ROM_ENTRY)

\* thumb_mode = addr & 1; r15 = (addr & ~1) + (thumb_mode ? 4 : 8)
BranchExchange(c, addr) ==
    [c EXCEPT !.thumb_mode = (addr % 2 = 1),
              !.r15 = ClearBit0(addr) + (IF addr % 2 = 1 THEN 4 ELSE 8)]

\* MSR to the CPSR.  value is the low byte of the operand, control tells
\* whether the field mask names the control field.
arm_msr(c, value, control) ==
    LET new_cpsr == IF control THEN value ELSE c.cpsr
        checked  == IF control /\ (new_cpsr % 32) \notin ValidModes
                    THEN (new_cpsr - (new_cpsr % 32)) + (c.cpsr % 32)
                    ELSE new_cpsr
    IN  [c EXCEPT !.cpsr = checked, !.thumb_mode = (Bit(checked, 5) = 1)]

\* Data processing with rd = 15.  result may be negative here where the
\* u32 subtraction wraps to a value above ADDR_LIMIT.
arm_write_pc(c, result, set_flags) ==
    LET c1 == IF set_flags
              THEN [c EXCEPT !.cpsr = c.spsr, !.thumb_mode = (Bit(c.spsr, 5) = 1)]
              ELSE c
    IN  IF result < 0 \/ InvalidTarget(ClearBit0(result))
        THEN c1
        ELSE IF set_flags
             THEN [c1 EXCEPT !.r15 = ClearBit0(result)]
             ELSE [c1 EXCEPT !.r15 = ClearBit0(result), !.thumb_mode = (result % 2 = 1)]

\* LDR with rd = 15; value is the word loaded.
arm_ldr_pc(c, value) ==
    IF InvalidTarget(ClearBit0(value))
    THEN [c EXCEPT !.r15 = value]
    ELSE [c EXCEPT !.thumb_mode = (value % 2 = 1), !.r15 = ClearBit0(value)]

\* LDM with PC in the register list; value is the word loaded into PC.
arm_ldm_pc(c, value, load_psr) ==
    LET is_privileged == (c.cpsr % 32) \notin {16, 31}
    IN  IF load_psr /\ is_privileged
        THEN [c EXCEPT !.cpsr = c.spsr, !.thumb_mode = (Bit(c.spsr, 5) = 1),
                       !.r15 = ClearBit0(value)]
        ELSE [c EXCEPT !.thumb_mode = (value % 2 = 1), !.r15 = ClearBit0(value)]

\* The BIOS calls of the SWI handler that change CPU control state.
arm_swi(c, comment) ==
    CASE comment = 0 -> [c EXCEPT !.r15 = ROM_ENTRY, !.cpsr = SOFTRESET_CPSR]
      [] comment \in {2, 3, 4, 5} -> [c EXCEPT !.halted = TRUE]
      [] OTHER -> c

\* opcode & mask over the instruction bits 27..0 (the decoder looks at the
\* condition field separately).
And28(a, b) ==
    NibbleAnd[Nibble(a, 0)][Nibble(b, 0)]
      + 16 * NibbleAnd[Nibble(a, 1)][Nibble(b, 1)]
      + 256 * NibbleAnd[Nibble(a, 2)][Nibble(b, 2)]
      + 4096 * NibbleAnd[Nibble(a, 3)][Nibble(b, 3)]
      + 65536 * NibbleAnd[Nibble(a, 4)][Nibble(b, 4)]
      + 1048576 * NibbleAnd[Nibble(a, 5)][Nibble(b, 5)]
      + 16777216 * NibbleAnd[Nibble(a, 6)][Nibble(b, 6)]

\* The order in which execute_arm tests an opcode whose condition passed,
\* and the class of instruction it is executed as.
arm_decode(opcode) ==
    LET op_type == (opcode \div (2^25)) % 8
    IN  IF And28(opcode, \h0FFFFFF0) = \h012FFF10 THEN "BX"
        ELSE IF And28(opcode, \h0FBF0FFF) = \h010F0000 THEN "MRS"
        ELSE IF And28(opcode, \h0FB00000) = \h03200000
                \/ And28(opcode, \h0DB00000) = \h01200000 THEN "MSR"
        ELSE IF And28(opcode, \h0FC000F0) = \h00000090 THEN "MUL"
        ELSE IF And28(opcode, \h0FB00FF0) = \h01000090 THEN "SWP"
        ELSE IF op_type \in {0, 1} THEN "DATA_PROC"
        ELSE IF op_type \in {2, 3} THEN "LDR_STR"
        ELSE IF op_type = 4 THEN "LDM_STM"
        ELSE IF op_type = 5 THEN "B"
        ELSE IF And28(opcode, \h0E000090) = \h00000090 /\ And28(opcode, \h60) # 0
             THEN "HALFWORD"
        ELSE IF op_type = 7 /\ And28(opcode, \h0F000000) = \h0F000000 THEN "SWI"
        ELSE "UNDEFINED"

\* A decoder that charges nothing for a data-processing instruction.
arm_cycles_free(class) ==
    CASE class = "MUL" -> 2
      [] class = "SWP" -> 4
      [] class \in {"LDR_STR", "LDM_STM", "HALFWORD"} -> 3
      [] OTHER -> 0

\* The cycles execute_arm charges for an instruction of a class whose
\* operands are registers R0..R12 and data memory.
arm_cycles(class) ==
    CASE class = "MUL" -> 2
      [] class = "SWP" -> 4
      [] class \in {"LDR_STR", "LDM_STM", "HALFWORD"} -> 3
      [] OTHER -> 1

\* c.r15 has already been advanced by 4 (cpu_step).
execute_arm(c, P, ins) ==
    CASE ins.op = "NOP" -> Outcome(c, P, 1, ins.op)
      [] ins.op = "B" ->
            Outcome([c EXCEPT !.r15 = ClearBit0((c.r15 - 4) + ins.a) + 8], P, 3, ins.op)
      [] ins.op = "BL" ->
            Outcome([c EXCEPT !.r14 = c.r15 - 8,
                              !.r15 = ClearBit0((c.r15 - 4) + ins.a) + 8], P, 3, ins.op)
      [] ins.op = "BX" ->
            IF InvalidTarget(ins.a)
            THEN Outcome(c, P, 3, ins.op)
            ELSE Outcome(BranchExchange(c, ins.a), P, 3, ins.op)
      [] ins.op = "MSR" -> Outcome(arm_msr(c, ins.a, ins.b = 1), P, 1, ins.op)
      [] ins.op \in {"MOV_PC", "MOVS_PC"} ->
            Outcome(arm_write_pc(c, ins.a, ins.op = "MOVS_PC"), P, 1, ins.op)
      [] ins.op \in {"SUB_PC_LR", "SUBS_PC_LR"} ->
            Outcome(arm_write_pc(c, c.r14 - ins.a, ins.op = "SUBS_PC_LR"), P, 1, ins.op)
      [] ins.op = "LDR_PC" -> Outcome(arm_ldr_pc([c EXCEPT !.r15 = ins.a], ins.a), P, 3, ins.op)
      [] ins.op = "LDM_PC" ->
            Outcome(arm_ldm_pc([c EXCEPT !.r15 = ins.a], ins.a, ins.b = 1), P, 3, ins.op)
      [] ins.op = "STR" ->
            Outcome(c, mem_write32_io(P, ins.a - (ins.a % 4), ins.b), 3, ins.op)
      [] ins.op = "SWI" -> Outcome(arm_swi(c, ins.a), P, 3, ins.op)
      [] ins.op = "MOV_LR_PC" -> Outcome([c EXCEPT !.r14 = c.r15 - 4], P, 1, ins.op)
      [] ins.op = "RAW" ->
            Outcome(c, P, arm_cycles(arm_decode(ins.a)), arm_decode(ins.a))
      [] OTHER -> Outcome(c, P, 1, ins.op)

\* Thumb SWI: only the halting calls change CPU control state.
thumb_swi(c, comment) ==
    IF comment \in {2, 3, 4, 5} THEN [c EXCEPT !.halted = TRUE] ELSE c

\* The BL / BLX pair; c.r15 has been advanced past the first halfword.
thumb_bl(c, offset, is_blx) ==
    LET r15 == c.r15 + 2
        target == (r15 - 4) + offset
        lr == ClearBit0(r15 - 4) + 1
    IN  IF is_blx
        THEN [c EXCEPT !.r14 = lr, !.thumb_mode = FALSE, !.r15 = target - (target % 4)]
        ELSE [c EXCEPT !.r14 = lr, !.thumb_mode = TRUE, !.r15 = ClearBit0(target)]

\* c.r15 has already been advanced by 2 (cpu_step).
execute_thumb(c, P, ins) ==
    CASE ins.op = "T_NOP" -> Outcome(c, P, 1, ins.op)
      [] ins.op = "T_MOV_PC" -> Outcome(BranchExchange(c, ins.a), P, 1, ins.op)
      [] ins.op = "T_BX" -> Outcome(BranchExchange(c, ins.a), P, 3, ins.op)
      [] ins.op = "T_POP_PC" -> Outcome(BranchExchange(c, ins.a), P, 3, ins.op)
      [] ins.op = "T_B" -> Outcome([c EXCEPT !.r15 = ClearBit0(c.r15 + ins.a)], P, 3, ins.op)
      [] ins.op = "T_BL" -> Outcome(thumb_bl(c, ins.a, ins.b = 1), P, 3, ins.op)
      [] ins.op = "T_SWI" -> Outcome(thumb_swi(c, ins.a), P, 3, ins.op)
      [] ins.op = "T_MOV_LR_PC" -> Outcome([c EXCEPT !.r14 = c.r15], P, 1, ins.op)
      [] ins.op = "T_BCC" ->
            IF ins.b = 1
            THEN Outcome([c EXCEPT !.r15 = ClearBit0((c.r15 - 2) + ins.a) + 4], P, 3, ins.op)
            ELSE Outcome(c, P, 1, ins.op)
      [] OTHER -> Outcome(c, P, 1, ins.op)

cpu_handle_interrupt(c) ==
    IF And16(c.cpsr, FLAG_I) # 0 THEN c
    ELSE [c EXCEPT !.spsr = c.cpsr,
                   !.cpsr = (c.cpsr - (c.cpsr % 32)) + 18 + FLAG_I,
                   !.r14 = c.r15 + 4,
                   !.r15 = IRQ_VECTOR,
                   !.thumb_mode = FALSE,
                   !.halted = FALSE]

\* The checks cpu_step makes on every call before looking at the PC:
\* an odd PC in Thumb state is made even, an invalid mode becomes System.
StepPrologue(c) ==
    LET c1 == IF c.thumb_mode /\ c.r15 % 2 = 1 THEN [c EXCEPT !.r15 = c.r15 - 1] ELSE c
    IN  IF (c1.cpsr % 32) \notin ValidModes
        THEN [c1 EXCEPT !.cpsr = (c1.cpsr - (c1.cpsr % 32)) + 31]
        ELSE c1

valid_pc(pc) ==
    \/ pc < BIOS_SIZE
    \/ (pc >= EWRAM_START /\ pc < IO_START)
    \/ (pc >= ROM_ENTRY /\ pc < ROM_END)

\* BIOS high-level emulation: return to the caller in LR, or to the ROM entry.
ReturnToCaller(c) ==
    IF c.r14 >= ROM_ENTRY
    THEN BranchExchange(c, c.r14)
    ELSE [c EXCEPT !.r15 = ROM_ENTRY + 8, !.thumb_mode = FALSE]

\* Whether cpu_step reaches its fetch (it returns early otherwise).
Fetches(c) ==
    LET pc == StepPrologue(c).r15
    IN  /\ ~c.halted
        /\ valid_pc(pc)
        /\ ~(pc < BIOS_SIZE /\ pc >= 32)
        /\ ~(pc <= 16)

\* The address cpu_step fetches from: pc - 4 in Thumb state, pc - 8 in ARM.
FetchAddr(c) ==
    LET pc == StepPrologue(c).r15
    IN  IF c.thumb_mode THEN pc - 4 ELSE pc - 8

\* ins is the instruction at FetchAddr(c); it is looked at only when
\* cpu_step reaches its fetch.
cpu_step(c, P, ins) ==
    IF c.halted THEN Outcome(c, P, 1, "halted")
    ELSE LET c1 == StepPrologue(c)
             pc == c1.r15
         IN  IF ~valid_pc(pc)
             THEN Outcome([c1 EXCEPT !.r15 = ROM_ENTRY, !.thumb_mode = FALSE], P, 3, "pc_reset")
             ELSE IF pc < BIOS_SIZE /\ pc >= 32
             THEN Outcome(ReturnToCaller(c1), P, 3, "bios_call")
             ELSE IF pc <= 16
             THEN Outcome(ReturnToCaller(c1), P, 3, "bios_vector")
             ELSE IF c1.thumb_mode
             THEN execute_thumb([c1 EXCEPT !.r15 = pc + 2], P, ins)
             ELSE execute_arm([c1 EXCEPT !.r15 = pc + 4], P, ins)

----------------------------------------------------------------------------
(* Memory contents seen by the fetch *)

\* The BIOS image written by bios_init: a branch at every exception vector
\* (offset 24 at the IRQ vector, 0 elsewhere), then MOV R0,R0 up to 0x4000.
bios_read32(addr) ==
    IF addr <= 28
    THEN IF addr = IRQ_VECTOR THEN Instr("B", 24, 0) ELSE Instr("B", 0, 0)
    ELSE Instr("NOP", 0, 0)

\* The low halfword of every BIOS word reads as a Thumb LSL Rd,R0,#0.
bios_read16(addr) == Instr("T_NOP", 0, 0)

BlockStart(addr) == addr - (addr % 256)

\* Opcodes (bits 27..0) of instructions on R0..R2 given to the decoder as
\* they are: LDRH R0,[R1], STRH R0,[R1], LDRSB R0,[R1], LDRSH R0,[R1,R2],
\* ADD R0,R0,R1, MUL R0,R1,R2.
RawOpcodes ==
    {\h01D100B0, \h01C100B0, \h01D100D0, \h019100F2, \h00800001, \h00000291}

\* Operand values offered to the instructions of an arbitrary program.
BranchTargets == {ROM_ENTRY, ROM_ENTRY + 257, IO_START, 0}

MsrValues == {31, 159, 63, 0}

ArmInstrs ==
    {Instr("NOP", 0, 0), Instr("B", -8, 0), Instr("BL", 0, 0),
     Instr("SUB_PC_LR", 4, 0), Instr("SUBS_PC_LR", 4, 0),
     Instr("STR", REG_IME, 1), Instr("MSR", 0, 0), Instr("MOV_LR_PC", 0, 0)}
    \cup {Instr(op, t, 0) : op \in {"BX", "MOV_PC", "MOVS_PC", "LDR_PC"}, t \in BranchTargets}
    \cup {Instr("LDM_PC", t, s) : t \in BranchTargets, s \in {0, 1}}
    \cup {Instr("MSR", v, 1) : v \in MsrValues}
    \cup {Instr("SWI", n, 0) : n \in {0, 2, 255}}
    \cup {Instr("RAW", w, 0) : w \in RawOpcodes}

ThumbInstrs ==
    {Instr("T_NOP", 0, 0), Instr("T_B", -2, 0), Instr("T_MOV_LR_PC", 0, 0)}
    \cup {Instr("T_BCC", -2, x) : x \in {0, 1}}
    \cup {Instr(op, t, 0) : op \in {"T_BX", "T_MOV_PC", "T_POP_PC"}, t \in BranchTargets}
    \cup {Instr("T_BL", 0, x) : x \in {0, 1}}
    \cup {Instr("T_SWI", n, 0) : n \in {2, 255}}

\* An arbitrary program: any instruction in the first CodeLen bytes of each
\* 256-byte block, and a BX back to the start of the block after them.
AnyRom(addr, thumb) ==
    IF addr % 256 < CodeLen
    THEN IF thumb THEN ThumbInstrs ELSE ArmInstrs
    ELSE IF thumb
         THEN {Instr("T_BX", BlockStart(addr) + 1, 0)}
         ELSE {Instr("BX", BlockStart(addr), 0)}

\* A family of start-up programs for the frame driver: each of four set-up
\* stores may be present or replaced by MOV R0,R0; then the program either
\* halts (SWI 2) or idles in a branch to itself.
TIMER0_SETUP == \h00C0FFFD

SetupRom(addr, thumb) ==
    LET off == addr - ROM_ENTRY
        nop == Instr("NOP", 0, 0)
    IN  CASE off = 0  -> {Instr("STR", REG_IE, INT_VBLANK + INT_TIMER0), nop}
          [] off = 4  -> {Instr("STR", REG_IME, 1), nop}
          [] off = 8  -> {Instr("STR", REG_DISPSTAT, 24), nop}
          [] off = 12 -> {Instr("STR", REG_TM0CNT_L, TIMER0_SETUP), nop}
          [] off = 16 -> {Instr("SWI", 2, 0), Instr("B", -8, 0)}
          [] OTHER    -> {Instr("B", -8, 0)}

\* The program memory of a specification: "setup" or "any".
Rom(program, addr, thumb) ==
    IF program = "setup" THEN SetupRom(addr, thumb) ELSE AnyRom(addr, thumb)

\* The instructions the next cpu_step may find.
FetchSet(c, program) ==
    IF ~Fetches(c) THEN {Instr("none", 0, 0)}
    ELSE IF FetchAddr(c) < BIOS_SIZE
         THEN IF c.thumb_mode THEN {bios_read16(FetchAddr(c))}
              ELSE {bios_read32(FetchAddr(c))}
         ELSE Rom(program, FetchAddr(c), c.thumb_mode)

----------------------------------------------------------------------------
(* DMA controller (dma_execute, dma_write_control, dma_trigger in stubs.c;  *)
(* the DMA register writes of mem_write8 in memory.c)                       *)
(*                                                                         *)
(* A u32 address is represented by the integer congruent to it modulo 2^32  *)
(* that lies in -2^31 .. 2^31 - 1: a negative integer stands for an         *)
(* address of 0x80000000 and above, as after 0 - 4.  A transfer is kept in  *)
(* closed form: unit i of a transfer reads src + i * src_step and writes    *)
(* dst + i * dst_step, for i < units.                                       *)

DMA_ENABLE     == 32768
DMA_IRQ        == 16384
DMA_START_MASK == 12288
DMA_32BIT      == 1024
DMA_REPEAT     == 512
INT_DMA0       == 256

DMA_MAX_COUNT  == \h4000
DMA_ADDR_MASK  == \h0FFFFFFF

\* One DMAChannel after dma_init, with the bytes of its DMAxCNT_H register
\* in io_regs (io_cnt_h).
dma_channel_init ==
    [source |-> 0, dest |-> 0, count |-> 0, control |-> 0,
     enabled |-> FALSE, irq_enable |-> FALSE, repeat |-> FALSE,
     word_transfer |-> FALSE,
     internal_source |-> 0, internal_dest |-> 0, internal_count |-> 0,
     io_cnt_h |-> 0]

\* The DMA state: the four channels and the transfers run by the last
\* register write or trigger, in the order they ran.
dma_init == [channels |-> [n \in 0..3 |-> dma_channel_init], xfers |-> <<>>]

\* (value & mask) != 0 for a mask of one bit
TestBit(value, mask) == (value \div mask) % 2 = 1

\* (value & DMA_START_MASK) >> 12
StartMode(value) == (value \div 4096) % 4

\* (ctrl >> 7) & 3 and (ctrl >> 5) & 3
SrcMode(ctrl) == (ctrl \div 128) % 4
DstMode(ctrl) == (ctrl \div 32) % 4

\* The step of the source address per unit.
src_step(ctrl, transfer_size) ==
    CASE SrcMode(ctrl) = 0 -> transfer_size
      [] SrcMode(ctrl) = 1 -> 0 - transfer_size
      [] OTHER -> 0

\* The step of the destination address per unit.
dst_step(ctrl, transfer_size) ==
    CASE DstMode(ctrl) = 0 -> transfer_size
      [] DstMode(ctrl) = 1 -> 0 - transfer_size
      [] DstMode(ctrl) = 2 -> 0
      [] OTHER -> transfer_size

\* The units dma_execute transfers.  is_ch3 is the outcome of the test
\* dma - (DMAChannel*)0 == 3, a pointer difference with a null pointer;
\* the count is a u16, which 0x10000 does not fit.
TransferCount(d, is_ch3) ==
    IF d.internal_count = 0
    THEN IF is_ch3 THEN \h10000 % \h10000 ELSE DMA_MAX_COUNT
    ELSE d.internal_count

DestAfterRepeat_keep(d, ctrl, dst) == dst

\* internal_dest after a transfer of a channel that repeats.
DestAfterRepeat(d, ctrl, dst) ==
    IF DstMode(ctrl) = 3 THEN d.dest ELSE dst

\* The channel after the end of the transfer loop; src and dst are the
\* addresses the loop ended with.
Complete(d, ctrl, src, dst) ==
    IF ~d.repeat
    THEN [d EXCEPT !.internal_source = src, !.internal_dest = dst,
                   !.enabled = FALSE,
                   !.control = d.control % DMA_ENABLE]
    ELSE [d EXCEPT !.internal_source = src,
                   !.internal_dest = DestAfterRepeat(d, ctrl, dst),
                   !.internal_count = d.count]

\* dma_execute on channel n in state d: the channel afterwards and the
\* transfers made (none when the channel is not enabled).
dma_execute(d, n, is_ch3) ==
    IF ~d.enabled THEN [channel |-> d, xfers |-> <<>>]
    ELSE LET count == TransferCount(d, is_ch3)
             transfer_size == IF d.word_transfer THEN 4 ELSE 2
             ctrl == d.control
             ss == src_step(ctrl, transfer_size)
             ds == dst_step(ctrl, transfer_size)
             src == d.internal_source + count * ss
             dst == d.internal_dest + count * ds
             after == Complete(d, ctrl, src, dst)
         IN  [channel |-> after,
              xfers |-> << [channel |-> n, units |-> count,
                            size |-> transfer_size,
                            src |-> d.internal_source, dst |-> d.internal_dest,
                            src_step |-> ss, dst_step |-> ds,
                            programmed |-> d.internal_count,
                            control |-> ctrl, dst_mode |-> DstMode(ctrl),
                            repeat |-> d.repeat, irq_enable |-> d.irq_enable,
                            dest |-> d.dest,
                            enabled_after |-> after.enabled,
                            src_after |-> after.internal_source,
                            dst_after |-> after.internal_dest] >>]

\* dma_write_control on channel n.
dma_write_control(d, n, value, is_ch3) ==
    LET was_enabled == d.enabled
        d1 == [d EXCEPT !.control = value,
                        !.enabled = TestBit(value, DMA_ENABLE),
                        !.irq_enable = TestBit(value, DMA_IRQ),
                        !.repeat = TestBit(value, DMA_REPEAT),
                        !.word_transfer = TestBit(value, DMA_32BIT)]
    IN  IF d1.enabled /\ ~was_enabled
        THEN LET d2 == [d1 EXCEPT !.internal_source = d1.source,
                                  !.internal_dest = d1.dest,
                                  !.internal_count = d1.count]
             IN  IF StartMode(value) = 0
                 THEN dma_execute(d2, n, is_ch3)
                 ELSE [channel |-> d2, xfers |-> <<>>]
        ELSE [channel |-> d1, xfers |-> <<>>]

\* mem_write8 to byte 10 or 11 of a channel's registers: the byte is stored
\* in io_regs, the register is read back and handed to dma_write_control.
mem_write8_dma_control(d, n, hi, value, is_ch3) ==
    LET io == ReplaceByte(d.io_cnt_h, hi, value)
    IN  dma_write_control([d EXCEPT !.io_cnt_h = io], n, io, is_ch3)

\* mem_write16 to DMAnCNT_H: the low byte, then the high byte.
mem_write16_dma_control(d, n, value, is_ch3) ==
    LET first == mem_write8_dma_control(d, n, FALSE, value % 256, is_ch3)
        second == mem_write8_dma_control(first.channel, n, TRUE, value \div 256, is_ch3)
    IN  [channel |-> second.channel, xfers |-> first.xfers \o second.xfers]

\* mem_read16 of DMAnCNT_H: no read case for the DMA registers, the two
\* bytes come from io_regs (memory.c:464).
mem_read16_dma_control(d) == d.io_cnt_h

\* mem_write32 to DMAnSAD / DMAnDAD: the register is masked to 28 bits.
mem_write32_dma_source(d, value) == [d EXCEPT !.source = And28(value, DMA_ADDR_MASK)]
mem_write32_dma_dest(d, value)   == [d EXCEPT !.dest = And28(value, DMA_ADDR_MASK)]

\* mem_write16 to DMAnCNT_L.
mem_write16_dma_count(d, value) == [d EXCEPT !.count = value]

\* Whether dma_trigger runs channel d for the trigger type.
Triggered(d, trigger_type) ==
    d.enabled /\ StartMode(d.control) = trigger_type

\* dma_trigger: the channels in the order 0..3.
RECURSIVE TriggerFrom(_, _, _, _)
TriggerFrom(state, n, trigger_type, is_ch3) ==
    IF n > 3 THEN state
    ELSE LET d == state.channels[n]
             r == IF Triggered(d, trigger_type)
                  THEN dma_execute(d, n, is_ch3)
                  ELSE [channel |-> d, xfers |-> <<>>]
         IN  TriggerFrom([channels |-> [state.channels EXCEPT ![n] = r.channel],
                          xfers |-> state.xfers \o r.xfers],
                         n + 1, trigger_type, is_ch3)

dma_trigger(state, trigger_type, is_ch3) ==
    TriggerFrom([state EXCEPT !.xfers = <<>>], 0, trigger_type, is_ch3)

----------------------------------------------------------------------------
(* The real-time clock behind the cartridge GPIO port (rtc.c)               *)

\* The clock fields as time() and localtime() deliver them: an input.
RtcTime(seconds, minutes) ==
    [seconds |-> seconds, minutes |-> minutes, hours |-> 0,
     days_low |-> 0, days_high |-> 0]

ZeroBuffer == [i \in 0..7 |-> 0]

rtc_init(now) ==
    [seconds |-> now.seconds, minutes |-> now.minutes, hours |-> now.hours,
     days_low |-> 0, days_high |-> 0, control |-> 0, status |-> 0,
     command |-> 0, bit_index |-> 0, data_buffer |-> ZeroBuffer,
     buffer_pos |-> 0, reading |-> FALSE, writing |-> FALSE,
     last_sck |-> 0, last_cs |-> 0]

rtc_update(clk, now) ==
    [clk EXCEPT !.seconds = now.seconds, !.minutes = now.minutes,
                !.hours = now.hours, !.days_low = now.days_low,
                !.days_high = now.days_high]

\* The SIO level (bit 1) the clock drives; rtc_update has run before.
rtc_gpio_read(clk) ==
    IF clk.reading /\ clk.bit_index < 64
    THEN 2 * Bit(clk.data_buffer[clk.bit_index \div 8], clk.bit_index % 8)
    ELSE 0

\* byte with bit pos set to level
WithBit(byte, pos, level) == byte - Bit(byte, pos) * (2^pos) + level * (2^pos)

\* Lines 131-174: the command byte is complete.
RtcCommand(clk, now) ==
    LET r == [clk EXCEPT !.command = clk.data_buffer[0]]
        op == r.command % 16
    IN  CASE op = 6 ->
               LET u == rtc_update(r, now)
               IN  [u EXCEPT !.reading = TRUE, !.writing = FALSE,
                             !.data_buffer =
                                 [i \in 0..7 |->
                                     CASE i = 0 -> u.seconds
                                       [] i = 1 -> u.minutes
                                       [] i = 2 -> u.hours
                                       [] i = 3 -> u.days_low
                                       [] i = 4 -> u.days_high
                                       [] i = 5 -> 0
                                       [] i = 6 -> u.control
                                       [] i = 7 -> u.status]]
          [] op = 2 ->
               [r EXCEPT !.reading = TRUE, !.writing = FALSE,
                         !.data_buffer[0] = r.status]
          [] op = 0 -> rtc_init(now)
          [] OTHER -> r

\* Lines 115-180: an SCK rising edge while CS is high.
RtcClock(clk, sio, now) ==
    IF clk.writing /\ clk.bit_index < 64
    THEN LET r == [clk EXCEPT
                      !.data_buffer[clk.bit_index \div 8] =
                          WithBit(@, clk.bit_index % 8, sio),
                      !.bit_index = @ + 1]
         IN  IF r.bit_index = 8 THEN RtcCommand(r, now) ELSE r
    ELSE IF clk.reading /\ clk.bit_index < 64
    THEN [clk EXCEPT !.bit_index = @ + 1]
    ELSE clk

rtc_gpio_write(clk, gpio_data, gpio_direction, now) ==
    LET sck == Bit(gpio_data, 0)
        sio == Bit(gpio_data, 1)
        cs  == Bit(gpio_data, 2)
        r1 == IF cs = 1 /\ clk.last_cs = 0
              THEN [clk EXCEPT !.bit_index = 0, !.buffer_pos = 0,
                               !.reading = FALSE, !.writing = TRUE,
                               !.data_buffer = ZeroBuffer]
              ELSE clk
        r2 == IF cs = 0 /\ r1.last_cs = 1
              THEN [r1 EXCEPT !.reading = FALSE, !.writing = FALSE]
              ELSE r1
        r3 == IF sck = 1 /\ r2.last_sck = 0 /\ cs = 1
              THEN RtcClock(r2, sio, now)
              ELSE r2
    IN  [r3 EXCEPT !.last_sck = sck, !.last_cs = cs]

----------------------------------------------------------------------------
(* The bus (memory.c): work RAM, the keypad registers, the cartridge GPIO  *)
(* port and the flash chip.  M is the pair [mem, rtc]; now is the time the *)
(* clock reads during the access.  Of the 256 KB of EWRAM the first        *)
(* EwramBytes bytes and the AI input byte are kept, of the flash array the *)
(* bytes at FlashWindow; other locations read as they do after mem_init.   *)

\* stubs.h:263; memory.c:1125 (AI input byte), 889 (keypad register),
\* 995 (GPIO data register), 940 (flash window).
EWRAM_SIZE   == \h40000
AI_INPUT     == \h3CF64
REG_KEYINPUT == \h130
GPIO_DATA    == \h080000C4
FLASH_START  == \h0E000000
FLASH_END    == \h0E020000

FlashWindow == {0, 1, \h2AAA, \h5555}

mem_init ==
    [ewram |-> [o \in 0..(EwramBytes - 1) |-> 0], ai_input |-> 0,
     keyinput |-> \h03FF,
     sram |-> [o \in FlashWindow |-> \hFF], flash_state |-> 0, flash_cmd |-> 0,
     gpio_data |-> 0, gpio_direction |-> 0, gpio_control |-> 1]

\* byte n (0 = least significant) of a value
ByteOf(value, n) == (value \div (256^n)) % 256

mem_read8_flash(m, offset) ==
    IF m.flash_state = 1 /\ m.flash_cmd = \h90 /\ offset = 0 THEN \hC2
    ELSE IF m.flash_state = 1 /\ m.flash_cmd = \h90 /\ offset = 1 THEN \h09
    ELSE IF offset \in FlashWindow THEN m.sram[offset]
    ELSE \hFF

mem_read8(M, addr) ==
    CASE addr >= EWRAM_START /\ addr < EWRAM_START + \h01000000 ->
            LET offset == (addr - EWRAM_START) % EWRAM_SIZE
            IN  IF offset = AI_INPUT THEN M.mem.ai_input
                ELSE IF offset < EwramBytes THEN M.mem.ewram[offset]
                ELSE 0
      [] addr \in {IO_START + REG_KEYINPUT, IO_START + REG_KEYINPUT + 1} ->
            ByteOf(M.mem.keyinput, addr - (IO_START + REG_KEYINPUT))
      [] addr = GPIO_DATA ->
            LET base_value == M.mem.gpio_data % 256
            IN  base_value - 2 * Bit(base_value, 1) + rtc_gpio_read(M.rtc)
      [] addr = GPIO_DATA + 1 -> M.mem.gpio_data \div 256
      [] addr = GPIO_DATA + 2 -> M.mem.gpio_direction % 256
      [] addr = GPIO_DATA + 3 -> M.mem.gpio_direction \div 256
      [] addr = GPIO_DATA + 4 -> M.mem.gpio_control % 256
      [] addr = GPIO_DATA + 5 -> M.mem.gpio_control \div 256
      [] addr >= FLASH_START /\ addr < FLASH_END ->
            mem_read8_flash(M.mem, addr - FLASH_START)
      [] OTHER -> 0

mem_read16(M, addr) == mem_read8(M, addr) + 256 * mem_read8(M, addr + 1)

mem_read32(M, addr) == mem_read16(M, addr) + 65536 * mem_read16(M, addr + 2)

\* Lines 939-990: a byte written to the flash region.
mem_write8_flash(m, offset, value) ==
    IF offset = \h5555 /\ value = \hAA
    THEN [m EXCEPT !.flash_state = 1]
    ELSE IF offset = \h2AAA /\ value = \h55 /\ m.flash_state = 1
    THEN [m EXCEPT !.flash_state = 2]
    ELSE IF offset = \h5555 /\ m.flash_state = 2
    THEN [m EXCEPT !.flash_cmd = value,
                   !.flash_state = CASE value = \h90 -> 1
                                     [] value = \hF0 -> 0
                                     [] value = \hA0 -> 3
                                     [] value = \h80 -> 4
                                     [] OTHER -> 0]
    ELSE IF m.flash_state = 3
    THEN [m EXCEPT !.sram = IF offset \in FlashWindow
                            THEN [@ EXCEPT ![offset] = value] ELSE @,
                   !.flash_state = 0]
    ELSE [m EXCEPT !.sram = IF offset \in FlashWindow
                            THEN [@ EXCEPT ![offset] = value] ELSE @]

\* Lines 993-1070: a byte written to the GPIO port.
mem_write8_gpio(M, reg, value, now) ==
    LET m == CASE reg \in {0, 1} ->
                     [M.mem EXCEPT !.gpio_data = ReplaceByte(@, reg = 1, value)]
               [] reg \in {2, 3} ->
                     [M.mem EXCEPT !.gpio_direction = ReplaceByte(@, reg = 3, value)]
               [] reg \in {4, 5} ->
                     [M.mem EXCEPT !.gpio_control = ReplaceByte(@, reg = 5, value)]
    IN  [mem |-> m,
         rtc |-> IF reg \in 0..3
                 THEN rtc_gpio_write(M.rtc, m.gpio_data, m.gpio_direction, now)
                 ELSE M.rtc]

mem_write8(M, addr, value, now) ==
    CASE addr >= EWRAM_START /\ addr < EWRAM_START + \h01000000 ->
            LET offset == (addr - EWRAM_START) % EWRAM_SIZE
            IN  IF offset = AI_INPUT THEN [M EXCEPT !.mem.ai_input = value]
                ELSE IF offset < EwramBytes
                THEN [M EXCEPT !.mem.ewram[offset] = value]
                ELSE M
      [] addr \in {IO_START + REG_KEYINPUT, IO_START + REG_KEYINPUT + 1} ->
            [M EXCEPT !.mem.keyinput =
                ReplaceByte(@, addr = IO_START + REG_KEYINPUT + 1, value)]
      [] addr >= FLASH_START /\ addr < FLASH_END ->
            [M EXCEPT !.mem = mem_write8_flash(@, addr - FLASH_START, value)]
      [] addr >= GPIO_DATA /\ addr <= GPIO_DATA + 5 ->
            mem_write8_gpio(M, addr - GPIO_DATA, value, now)
      [] OTHER -> M

mem_write16(M, addr, value, now) ==
    mem_write8(mem_write8(M, addr, value % 256, now), addr + 1, value \div 256, now)

mem_write32(M, addr, value, now) ==
    mem_write16(mem_write16(M, addr, value % 65536, now), addr + 2,
                value \div 65536, now)

mem_set_ai_input(m, value) == [m EXCEPT !.ai_input = value]

----------------------------------------------------------------------------
(* The BIOS calls of the SWI handlers: execute_arm (cpu_core.c:784-1024)   *)
(* and execute_thumb (cpu_core.c:1502-1564).  arm_swi and thumb_swi above  *)
(* give the effect on the CPU control state; here is the effect on R0..R3, *)
(* R13 and on memory.  comment is opcode & 0xFF.  A register holding a     *)
(* u32 of 0x80000000 and above is kept as the s32 the handlers cast it to. *)

\* The case labels of the two switch statements.
ArmBiosCalls ==
    {0, 1, 2, 3, 4, 5, 6, 8, 11, 12, 13, 14, 15, 17, 18, 19, 20, 21, 22, 23,
     24, 25, 31, 40, 41}

ThumbBiosCalls == {2, 3, 4, 5, 6, 8, 11, 12, 13}

BIOS_CHECKSUM == (\h3AAE187F - \h40000000) - \h40000000

\* s32 division and remainder of C (rounding towards zero).
TruncDiv(a, b) ==
    LET q == (IF a < 0 THEN -a ELSE a) \div (IF b < 0 THEN -b ELSE b)
    IN  IF (a < 0) = (b < 0) THEN q ELSE -q

TruncRem(a, b) == a - b * TruncDiv(a, b)

\* case 0x06; the Thumb handler has no else branch for a zero divisor.
bios_div(r, thumb) ==
    IF r.r1 # 0
    THEN [r EXCEPT !.r0 = TruncDiv(r.r0, r.r1), !.r1 = TruncRem(r.r0, r.r1),
                   !.r3 = TruncDiv(IF r.r0 < 0 THEN -r.r0 ELSE r.r0,
                                   IF r.r1 < 0 THEN -r.r1 ELSE r.r1)]
    ELSE IF thumb THEN r
    ELSE [r EXCEPT !.r0 = 0, !.r1 = 0, !.r3 = 0]

\* case 0x08, for val below 2^31: while (bit > val) bit >>= 2, then the
\* digit-by-digit loop.
RECURSIVE SqrtBit(_, _)
SqrtBit(val, bit) == IF bit > val THEN SqrtBit(val, bit \div 4) ELSE bit

RECURSIVE SqrtLoop(_, _, _)
SqrtLoop(val, result, bit) ==
    IF bit = 0 THEN result
    ELSE IF val >= result + bit
    THEN SqrtLoop(val - (result + bit), (result \div 2) + bit, bit \div 4)
    ELSE SqrtLoop(val, result \div 2, bit \div 4)

bios_sqrt(val) == SqrtLoop(val, 0, SqrtBit(val, 2^30))

swi_regs_clobber(thumb, r, comment) ==
    CASE comment = 0 /\ ~thumb -> [r EXCEPT !.r13 = SP_DEFAULT]
      [] comment = 6 -> bios_div(r, thumb)
      [] comment = 8 -> [r EXCEPT !.r0 = bios_sqrt(r.r0)]
      [] comment = 13 -> [r EXCEPT !.r0 = BIOS_CHECKSUM]
      [] OTHER -> [r EXCEPT !.r0 = 0]

\* R0..R3 and R13 after the BIOS call.
swi_regs(thumb, r, comment) ==
    CASE comment = 0 /\ ~thumb -> [r EXCEPT !.r13 = SP_DEFAULT]
      [] comment = 6 -> bios_div(r, thumb)
      [] comment = 8 -> [r EXCEPT !.r0 = bios_sqrt(r.r0)]
      [] comment = 13 -> [r EXCEPT !.r0 = BIOS_CHECKSUM]
      [] OTHER -> r

\* cases 0x0B and 0x0C: count units copied from src to dst.
RECURSIVE CpuSetLoop(_, _, _, _, _, _)
CpuSetLoop(M, src, dst, count, word_size, fixed_src) ==
    IF count = 0 THEN M
    ELSE LET unit == IF word_size THEN 4 ELSE 2
             M1 == IF word_size
                   THEN mem_write32(M, dst, mem_read32(M, src), RtcTime(0, 0))
                   ELSE mem_write16(M, dst, mem_read16(M, src), RtcTime(0, 0))
         IN  CpuSetLoop(M1, IF fixed_src THEN src ELSE src + unit, dst + unit,
                        count - 1, word_size, fixed_src)

bios_cpu_set(r, M, fast) ==
    CpuSetLoop(M, r.r0, r.r1, r.r2 % (2^21),
               fast \/ Bit(r.r2, 26) = 1, Bit(r.r2, 24) = 1)

\* cases 0x11 and 0x12.  A decompressor state is the memory, the source
\* pointer and the number of bytes written.
Unpack(M, src, dst_pos) == [bus |-> M, src |-> src, dst_pos |-> dst_pos]

RECURSIVE LzCopy(_, _, _, _, _)
LzCopy(u, dst, size, disp, len) ==
    IF len = 0 \/ u.dst_pos >= size THEN u
    ELSE LzCopy(Unpack(mem_write8(u.bus, dst + u.dst_pos,
                                  mem_read8(u.bus, (dst + u.dst_pos) - disp),
                                  RtcTime(0, 0)),
                       u.src, u.dst_pos + 1),
                dst, size, disp, len - 1)

RECURSIVE LzBlock(_, _, _, _, _)
LzBlock(u, dst, size, flags, i) ==
    IF i = 8 \/ u.dst_pos >= size THEN u
    ELSE IF Bit(flags, 7 - i) = 1
    THEN LET b1 == mem_read8(u.bus, u.src)
             b2 == mem_read8(u.bus, u.src + 1)
         IN  LzBlock(LzCopy(Unpack(u.bus, u.src + 2, u.dst_pos), dst, size,
                            ((b1 % 16) * 256 + b2) + 1, (b1 \div 16) + 3),
                     dst, size, flags, i + 1)
    ELSE LzBlock(Unpack(mem_write8(u.bus, dst + u.dst_pos,
                                   mem_read8(u.bus, u.src), RtcTime(0, 0)),
                        u.src + 1, u.dst_pos + 1),
                 dst, size, flags, i + 1)

RECURSIVE LzLoop(_, _, _)
LzLoop(u, dst, size) ==
    IF u.dst_pos >= size THEN u.bus
    ELSE LzLoop(LzBlock(Unpack(u.bus, u.src + 1, u.dst_pos), dst, size,
                        mem_read8(u.bus, u.src), 0),
                dst, size)

bios_lz77(r, M) ==
    LzLoop(Unpack(M, r.r0 + 4, 0), r.r1, mem_read32(M, r.r0) \div 256)

\* cases 0x14 and 0x15.
RECURSIVE RlFill(_, _, _, _, _)
RlFill(u, dst, size, len, data) ==
    IF len = 0 \/ u.dst_pos >= size THEN u
    ELSE RlFill(Unpack(mem_write8(u.bus, dst + u.dst_pos, data, RtcTime(0, 0)),
                       u.src, u.dst_pos + 1),
                dst, size, len - 1, data)

RECURSIVE RlCopy(_, _, _, _)
RlCopy(u, dst, size, len) ==
    IF len = 0 \/ u.dst_pos >= size THEN u
    ELSE RlCopy(Unpack(mem_write8(u.bus, dst + u.dst_pos,
                                  mem_read8(u.bus, u.src), RtcTime(0, 0)),
                       u.src + 1, u.dst_pos + 1),
                dst, size, len - 1)

RECURSIVE RlLoop(_, _, _)
RlLoop(u, dst, size) ==
    IF u.dst_pos >= size THEN u.bus
    ELSE LET flag == mem_read8(u.bus, u.src)
         IN  IF Bit(flag, 7) = 1
             THEN RlLoop(RlFill(Unpack(u.bus, u.src + 2, u.dst_pos), dst, size,
                                (flag % 128) + 3, mem_read8(u.bus, u.src + 1)),
                         dst, size)
             ELSE RlLoop(RlCopy(Unpack(u.bus, u.src + 1, u.dst_pos), dst, size,
                                (flag % 128) + 1),
                         dst, size)

bios_rl(r, M) ==
    RlLoop(Unpack(M, r.r0 + 4, 0), r.r1, mem_read32(M, r.r0) \div 256)

\* Memory after the BIOS call: the Thumb handler only acknowledges CpuSet
\* and CpuFastSet and has no case for the decompressors.
swi_mem(thumb, r, M, comment) ==
    CASE ~thumb /\ comment = 11 -> bios_cpu_set(r, M, FALSE)
      [] ~thumb /\ comment = 12 -> bios_cpu_set(r, M, TRUE)
      [] ~thumb /\ comment \in {17, 18} -> bios_lz77(r, M)
      [] ~thumb /\ comment \in {20, 21} -> bios_rl(r, M)
      [] OTHER -> M

----------------------------------------------------------------------------
(* The input subsystem (input.c) *)

input_init == [current_keys |-> 0, previous_keys |-> 0]

\* ~current_keys as a u16
KeysToGba(keys) == 65535 - keys

\* Returns the input state and the bus pair after the write to KEYINPUT.
input_update(inp, M, now) ==
    LET cur == mem_read8(M, EWRAM_START + AI_INPUT)
    IN  [input |-> [current_keys |-> cur, previous_keys |-> inp.current_keys],
         bus |-> mem_write16(M, IO_START + REG_KEYINPUT, KeysToGba(cur), now)]

----------------------------------------------------------------------------
(* The frame driver (emu_frame in main.c)                                  *)
(*                                                                         *)
(* emu.phase is the position inside emu_frame:                             *)
(*   "frame"    entry of emu_frame                                         *)
(*   "vcount"   top of the scanline loop body                              *)
(*   "dma"      after interrupt_update_vcount                              *)
(*   "step"     inside the CPU loop, before cpu_step                       *)
(*   "timer"    after cpu_step, before timer_update                        *)
(*   "irq"      after timer_update, before interrupt_check                 *)
(*   "line_end" after the CPU loop                                         *)
(*   "render"   after the scanline loop                                    *)
(* gfx is the number of scanlines the renderer has drawn since the entry   *)
(* of emu_frame.  hist records what has happened: the number of            *)
(* INT_VBLANK raises since the entry of emu_frame, the DMA trigger type of *)
(* the scanline, the number of consecutive scanlines that ended halted     *)
(* with an interrupt pending, what the last CPU loop step executed, and    *)
(* the CPU state the last IRQ dispatch interrupted.                        *)

VISIBLE_LINES == 160

NoIrq == [valid |-> FALSE, r15 |-> 0, thumb_mode |-> FALSE, cpsr |-> 0]

hist_init ==
    [vblank_raises |-> 0, dma_type |-> 0, halt_wait |-> 0, last_op |-> "none",
     irq_from |-> NoIrq]

Min(a, b) == IF a < b THEN a ELSE b

FrameStart ==
    /\ emu.phase = "frame"
    /\ emu' = [emu EXCEPT !.phase = "vcount", !.scanline = 0]
    /\ gfx' = 0
    /\ hist' = [hist EXCEPT !.vblank_raises = 0]
    /\ LET u == input_update(input, [mem |-> mem, rtc |-> rtc], RtcTime(0, 0))
       IN  /\ input' = u.input
           /\ mem' = u.bus.mem
    /\ UNCHANGED <<cpu, interrupts, timers, dma, rtc, regs>>

VCountUpdate ==
    /\ emu.phase = "vcount"
    /\ interrupts' = interrupt_update_vcount(interrupts, emu.scanline)
    /\ hist' = [hist EXCEPT !.vblank_raises =
                   IF VBlankEdge(emu.scanline, interrupts.last_scanline)
                   THEN Min(@ + 1, 2) ELSE @]
    /\ emu' = [emu EXCEPT !.phase = "dma"]
    /\ UNCHANGED <<cpu, timers, gfx, dma, mem, input, rtc, regs>>

\* No DMA channel is ever enabled here, so dma_trigger transfers nothing;
\* the trigger type is recorded.  The CPU loop is entered unless halted.
DmaTrigger ==
    /\ emu.phase = "dma"
    /\ hist' = [hist EXCEPT !.dma_type =
                   IF emu.scanline = VBLANK_LINE THEN 1
                   ELSE IF emu.scanline < VISIBLE_LINES THEN 2 ELSE 0]
    /\ emu' = [emu EXCEPT !.cycles_left = ScanlineBudget,
                          !.phase = IF cpu.halted THEN "line_end" ELSE "step"]
    /\ UNCHANGED <<cpu, interrupts, timers, gfx, dma, mem, input, rtc, regs>>

CpuStep(program) ==
    /\ emu.phase = "step"
    /\ \E ins \in FetchSet(cpu, program) :
          LET out == cpu_step(cpu, [timers |-> timers, interrupts |-> interrupts], ins)
          IN  /\ cpu' = out.cpu
              /\ timers' = out.bus.timers
              /\ interrupts' = out.bus.interrupts
              /\ emu' = [emu EXCEPT !.phase = "timer",
                                    !.cycles = out.cycles,
                                    !.cycles_left = IF out.cycles > @ THEN 0
                                                    ELSE @ - out.cycles]
              /\ hist' = [hist EXCEPT !.last_op = out.op]
              /\ regs' = IF out.op \in {"SWI", "T_SWI"}
                         THEN swi_regs(out.op = "T_SWI", regs, ins.a)
                         ELSE regs
    /\ UNCHANGED <<gfx, dma, mem, input, rtc>>

TimerUpdate ==
    /\ emu.phase = "timer"
    /\ LET P == timer_update([timers |-> timers, interrupts |-> interrupts], emu.cycles)
       IN  /\ timers' = P.timers
           /\ interrupts' = P.interrupts
    /\ emu' = [emu EXCEPT !.phase = "irq"]
    /\ UNCHANGED <<cpu, gfx, hist, dma, mem, input, rtc, regs>>

IrqCheck ==
    /\ emu.phase = "irq"
    /\ IF interrupt_check(interrupts) /\ And16(cpu.cpsr, FLAG_I) = 0
       THEN /\ cpu' = cpu_handle_interrupt(cpu)
            /\ hist' = [hist EXCEPT !.last_op = "irq",
                           !.irq_from = [valid |-> TRUE, r15 |-> cpu.r15,
                                         thumb_mode |-> cpu.thumb_mode,
                                         cpsr |-> cpu.cpsr]]
       ELSE UNCHANGED <<cpu, hist>>
    /\ emu' = [emu EXCEPT !.phase =
                  IF emu.cycles_left > 0 /\ ~cpu'.halted THEN "step" ELSE "line_end"]
    /\ UNCHANGED <<interrupts, timers, gfx, dma, mem, input, rtc, regs>>

\* End of the scanline loop body.  (interrupts_fired, a statistics counter
\* nothing reads, is not kept.)
ScanlineEnd ==
    /\ emu.phase = "line_end"
    /\ hist' = [hist EXCEPT !.halt_wait =
                   IF cpu.halted /\ interrupt_check(interrupts)
                   THEN Min(@ + 1, 2) ELSE 0]
    /\ emu' = IF emu.scanline + 1 < TOTAL_SCANLINES
              THEN [emu EXCEPT !.phase = "vcount", !.scanline = @ + 1]
              ELSE [emu EXCEPT !.phase = "render"]
    /\ UNCHANGED <<cpu, interrupts, timers, gfx, dma, mem, input, rtc, regs>>

\* gfx_render_frame draws all visible scanlines; emu_frame returns.
RenderFrame ==
    /\ emu.phase = "render"
    /\ gfx' = VISIBLE_LINES
    /\ emu' = [emu EXCEPT !.phase = "frame"]
    /\ UNCHANGED <<cpu, interrupts, timers, hist, dma, mem, input, rtc, regs>>

----------------------------------------------------------------------------
(* Specification of the frame driver: the state after emu_init, running    *)
(* frames of a start-up program.                                           *)

Init ==
    /\ emu = [phase |-> "frame", scanline |-> 0, cycles_left |-> 0, cycles |-> 0]
    /\ cpu = cpu_reset
    /\ interrupts = interrupt_init
    /\ timers = timer_init
    /\ gfx = 0
    /\ hist = hist_init
    /\ dma = dma_init
    /\ mem = mem_init
    /\ input = input_init
    /\ rtc = rtc_init(RtcTime(0, 0))
    /\ regs = regs_reset

CpuStepSetup == CpuStep("setup")

Next ==
    \/ FrameStart
    \/ VCountUpdate
    \/ DmaTrigger
    \/ CpuStepSetup
    \/ TimerUpdate
    \/ IrqCheck
    \/ ScanlineEnd
    \/ RenderFrame

Spec == Init /\ [][Next]_vars

(* Specification of the CPU loop of one scanline (scanline 160, right after *)
(* its VCount update raised INT_VBLANK), running an arbitrary program from   *)
(* the ROM entry with any setting of IE bit 0 and IME.                       *)

InitCpu ==
    /\ emu = [phase |-> "step", scanline |-> VBLANK_LINE,
              cycles_left |-> CpuBudget, cycles |-> 0]
    /\ cpu = cpu_reset
    /\ \E e \in {0, 1}, m \in {0, 1} :
          interrupts =
              [interrupt_update_vcount(
                   [interrupt_init EXCEPT !.last_scanline = VBLANK_LINE - 1],
                   VBLANK_LINE)
               EXCEPT !.ie = e, !.ime = m]
    /\ timers = timer_init
    /\ gfx = 0
    /\ hist = [hist_init EXCEPT !.vblank_raises = 1, !.dma_type = 1]
    /\ dma = dma_init
    /\ mem = mem_init
    /\ input = input_init
    /\ rtc = rtc_init(RtcTime(0, 0))
    /\ regs = regs_reset

CpuStepAny == CpuStep("any")

NextCpu ==
    \/ CpuStepAny
    \/ TimerUpdate
    \/ IrqCheck

SpecCpu == InitCpu /\ [][NextCpu]_vars

----------------------------------------------------------------------------
(* Properties of the frame driver, checked under Spec                      *)

\* C1: every visible scanline is rendered after that scanline's DMA and CPU
\* work and before the next scanline's VCount update: when the driver is
\* about to update VCount for scanline s >= 1, the renderer has drawn the
\* scanlines 0 .. min(s, 160) - 1 of this frame.
C1_RenderedBeforeNextVCount ==
    (emu.phase = "vcount" /\ emu.scanline >= 1)
        => gfx >= Min(emu.scanline, VISIBLE_LINES)

\* C2: the frame driver never is about to execute an instruction while an
\* interrupt is pending (IME bit 0 set, IE & IF nonzero) and CPSR I is
\* clear: such an interrupt has been dispatched before the instruction.
C2_IrqBeforeInstruction ==
    emu.phase = "step"
        => ~(interrupt_check(interrupts) /\ And16(cpu.cpsr, FLAG_I) = 0)

\* C3: a halted CPU with an interrupt pending leaves the halted state no
\* later than the next iteration of the scanline loop: no two consecutive
\* scanlines end with the CPU halted and an interrupt pending.
C3_HaltedWakes == hist.halt_wait < 2

\* C4: while the CPU is halted, a scanline advances the timers by the
\* scanline's cycle budget: the timers after the (skipped) CPU loop are the
\* timers timer_update gives for the whole budget.
C4_HaltedTimersAdvance ==
    [][(emu.phase = "dma" /\ cpu.halted)
          => timers' = timer_update([timers |-> timers, interrupts |-> interrupts],
                                    ScanlineBudget).timers]_vars

\* The number of VCount updates done since the entry of emu_frame.
UpdatesDone == IF emu.phase = "vcount" THEN emu.scanline ELSE emu.scanline + 1

ProbeLines == {0, VBLANK_LINE - 1, VBLANK_LINE, VBLANK_LINE + 1, TOTAL_SCANLINES - 1}

\* C5: in every frame INT_VBLANK is raised exactly once, at the VCount
\* update that changes the scanline to 160 from a different value: the
\* number of raises since the frame began is 0 until that update and 1 from
\* it on, it is 1 when the 228 scanlines are done, and a VCount update made
\* from any state of the frame raises the flag (seen in IF once the flag has
\* been acknowledged) exactly when it moves the scanline to 160 from another
\* value.
C5_VBlankOncePerFrame ==
    /\ emu.phase # "frame"
          => hist.vblank_raises = (IF UpdatesDone > VBLANK_LINE THEN 1 ELSE 0)
    /\ emu.phase = "render" => hist.vblank_raises = 1
    /\ emu.phase = "vcount"
          => \A s \in ProbeLines :
                LET acked == interrupt_acknowledge(interrupts, INT_VBLANK)
                    after == interrupt_update_vcount(acked, s)
                IN  (And16(after.if_flag, INT_VBLANK) # 0)
                        <=> (s = VBLANK_LINE /\ interrupts.last_scanline # VBLANK_LINE)

\* C5 witness: the VCount update of scanline 160 has just run, coming from
\* scanline 159, and has raised INT_VBLANK, the only raise of the frame.
C5_Witness ==
    /\ emu.phase = "dma"
    /\ emu.scanline = VBLANK_LINE
    /\ interrupts.last_scanline = VBLANK_LINE
    /\ hist.vblank_raises = 1
    /\ And16(interrupts.if_flag, INT_VBLANK) # 0
    /\ Bit(interrupts.dispstat, 0) = 1

\* C6: at the end of each visible scanline the HBlank flag is raised in IF
\* if DISPSTAT bit 4 is set: when a visible scanline is over and bit 4 is
\* set, IF holds INT_HBLANK (the start-up programs never acknowledge it).
C6_HBlankRaised ==
    (emu.phase = "vcount" /\ emu.scanline >= 1 /\ emu.scanline <= VISIBLE_LINES
        /\ Bit(interrupts.dispstat, 4) = 1)
        => And16(interrupts.if_flag, INT_HBLANK) # 0

----------------------------------------------------------------------------
(* Properties of the interpreter, checked under SpecCpu                    *)

\* The operations that are executed instructions.
ExecutedOps ==
    {ins.op : ins \in ArmInstrs \cup ThumbInstrs} \cup {"B", "NOP", "T_NOP"}

\* C7: after an IRQ dispatch SPSR holds the CPSR from before the dispatch,
\* the mode bits are 0x12, I is set, the CPU is in ARM state, R14 holds the
\* return address (SUBS PC,LR,#4 gives back the interrupted R15), and the
\* next instruction executed is the one at the IRQ vector 0x18.
C7_IrqEntry ==
    hist.last_op = "irq"
        => /\ cpu.spsr = hist.irq_from.cpsr
           /\ cpu.cpsr % 32 = 18
           /\ And16(cpu.cpsr, FLAG_I) # 0
           /\ ~cpu.thumb_mode
           /\ cpu.r14 - 4 = hist.irq_from.r15
           /\ Fetches(cpu)
           /\ FetchAddr(cpu) = IRQ_VECTOR

\* C8: when an IRQ was dispatched between two instructions of a program in
\* ROM and the handler, still in IRQ mode with LR and SPSR as the dispatch
\* left them, executes SUBS PC,LR,#4, the CPU resumes at the interrupted
\* R15 (the instruction that was next), in the instruction set it was in,
\* with the CPSR it had.
C8_IrqReturnResumes ==
    [][(/\ emu.phase = "step"
        /\ hist'.last_op = "SUBS_PC_LR"
        /\ hist.irq_from.valid
        /\ hist.irq_from.r15 >= ROM_ENTRY
        /\ hist.irq_from.r15 < ROM_END
        /\ cpu.cpsr % 32 = 18
        /\ cpu.r14 = hist.irq_from.r15 + 4
        /\ cpu.spsr = hist.irq_from.cpsr)
          => /\ cpu'.r15 = hist.irq_from.r15
             /\ cpu'.thumb_mode = hist.irq_from.thumb_mode
             /\ cpu'.cpsr = hist.irq_from.cpsr]_vars

\* C9: after every executed instruction and every IRQ dispatch, CPSR bit 5
\* equals thumb_mode.
C9_ThumbBitAgrees ==
    hist.last_op \in ExecutedOps \cup {"irq"}
        => ((And16(cpu.cpsr, FLAG_T) # 0) <=> cpu.thumb_mode)

\* C10: after every executed instruction the low 5 bits of CPSR are one of
\* the seven valid modes.
C10_ModeValid ==
    hist.last_op \in ExecutedOps => (cpu.cpsr % 32) \in ValidModes

----------------------------------------------------------------------------
(* Writes to the PC *)

\* The instructions of the model that write R15.
PcWriteOps ==
    {"B", "BL", "BX", "MOV_PC", "MOVS_PC", "SUB_PC_LR", "SUBS_PC_LR", "LDR_PC",
     "LDM_PC", "T_MOV_PC", "T_BX", "T_POP_PC", "T_B", "T_BL"}

\* C11: right after an instruction that writes the PC has been executed, the
\* PC does not lie in a region the interpreter itself treats as an invalid
\* branch target (0x04000000..0x07FFFFFF, or 0x10000000 and above).
C11_PcWriteStaysMapped ==
    (emu.phase = "timer" /\ hist.last_op \in PcWriteOps) => ~InvalidTarget(cpu.r15)

----------------------------------------------------------------------------
(* Delivery of an IRQ to the program's handler *)

\* The handler address the program stores at 0x03007FFC.
IRQ_HANDLER == \h03000000

\* C12: with IE bit 0, IME and DISPSTAT bit 3 set, once the VBlank IRQ has
\* been dispatched, the step that takes the CPU out of the BIOS, still in
\* IRQ mode, takes it to the handler whose address is stored at 0x03007FFC.
C12_IrqReachesHandler ==
    [][(/\ emu.phase = "step"
        /\ hist.irq_from.valid
        /\ And16(interrupts.ie, INT_VBLANK) # 0
        /\ interrupts.ime = 1
        /\ Bit(interrupts.dispstat, 3) = 1
        /\ And16(interrupts.if_flag, INT_VBLANK) # 0
        /\ cpu.cpsr % 32 = 18
        /\ cpu.r15 < BIOS_SIZE
        /\ cpu'.r15 >= BIOS_SIZE)
          => (Fetches(cpu') /\ FetchAddr(cpu') = IRQ_HANDLER)]_vars

----------------------------------------------------------------------------
(* Reads of R15 as a source operand *)

\* C13: MOV LR,PC copies into LR the address of the instruction plus 8 in
\* ARM state and plus 4 in Thumb state (the hi-register MOV with PC as the
\* source).
C13_PcReadOffset ==
    [][(emu.phase = "step" /\ hist'.last_op \in {"MOV_LR_PC", "T_MOV_LR_PC"})
          => cpu'.r14 = FetchAddr(cpu) + (IF cpu.thumb_mode THEN 4 ELSE 8)]_vars

----------------------------------------------------------------------------
(* Branch targets *)

\* The target a branch instruction encodes, from the address it was fetched at.
EncodedTarget(addr, thumb, ins) ==
    IF thumb THEN ClearBit0(addr + 4 + ins.a) ELSE ClearBit0(addr + 8 + ins.a)

\* Whether the instruction is a taken branch of the kinds B, BL, Thumb
\* conditional branch, Thumb unconditional branch and Thumb BL.
TakenBranch(ins) ==
    \/ ins.op \in {"B", "BL", "T_B"}
    \/ ins.op = "T_BCC" /\ ins.b = 1
    \/ ins.op = "T_BL" /\ ins.b = 0

\* C14: after a taken branch whose encoded target is t, R15 is t + 8 in ARM
\* state and t + 4 in Thumb state, so that the next fetch reads t.
C14_BranchTarget ==
    [][\A ins \in FetchSet(cpu, "any") :
          (/\ emu.phase = "step"
           /\ Fetches(cpu)
           /\ TakenBranch(ins)
           /\ cpu' = cpu_step(cpu, [timers |-> timers, interrupts |-> interrupts], ins).cpu)
             => cpu'.r15 = EncodedTarget(FetchAddr(cpu), cpu.thumb_mode, ins)
                              + (IF cpu'.thumb_mode THEN 4 ELSE 8)]_vars

----------------------------------------------------------------------------
(* Decoding of the halfword and signed-byte transfers *)

\* Bits 27-25 = 000, bit 7 = 1, bit 4 = 1 and bits 6-5 not both zero.
HalfwordEncoding(opcode) ==
    /\ (opcode \div (2^25)) % 8 = 0
    /\ Bit(opcode, 7) = 1
    /\ Bit(opcode, 4) = 1
    /\ (opcode \div 32) % 4 # 0

\* C15: an ARM opcode with the halfword / signed-byte transfer encoding is
\* executed as a halfword or signed-byte transfer.
C15_HalfwordDecoded ==
    [][\A ins \in FetchSet(cpu, "any") :
          LET out == cpu_step(cpu, [timers |-> timers, interrupts |-> interrupts], ins)
          IN  (/\ emu.phase = "step"
               /\ Fetches(cpu)
               /\ ~cpu.thumb_mode
               /\ ins.op = "RAW"
               /\ HalfwordEncoding(ins.a)
               /\ cpu' = out.cpu
               /\ emu'.cycles = out.cycles
               /\ hist'.last_op = out.op)
                 => hist'.last_op = "HALFWORD"]_vars

----------------------------------------------------------------------------
(* Specification of the DMA controller: a program that writes the          *)
(* registers of one DMA channel in any order, and the VBlank / HBlank      *)
(* triggers of the frame driver.                                           *)

DmaChannels == {0, 3}

\* Values written to DMAxSAD and DMAxDAD.
DmaSources == {\h0FFFFFFC, 0}
DmaDests   == {\h12000000, 0}

DmaCounts == 0..MaxDmaCount

\* A DMAxCNT_H value with the enable bit and 32-bit units.
Control(timing, rep, irq, sm, dm) ==
    DMA_ENABLE + DMA_32BIT + timing * 4096 + rep * DMA_REPEAT + irq * DMA_IRQ
        + sm * 128 + dm * 32

\* Values written to DMAxCNT_H: 0; immediate transfers with the address
\* modes increment/increment, decrement/decrement and fixed/reload, the
\* first also with IRQ; repeating VBlank transfers with fixed/reload and
\* increment/reload.
DmaControls ==
    {0, Control(0, 0, 0, 0, 0), Control(0, 0, 0, 1, 1), Control(0, 0, 0, 2, 3),
     Control(0, 0, 1, 0, 0),
     Control(1, 1, 0, 2, 3), Control(1, 1, 0, 0, 3)}

\* The program uses channel n only.
OnlyChannel(n) ==
    \A m \in (0..3) \ {n} : dma.channels[m] = dma_channel_init

Abs(x) == IF x < 0 THEN 0 - x ELSE x

WithinSpan(d) ==
    /\ Abs(d.internal_source - d.source) <= DmaSpan
    /\ Abs(d.internal_dest - d.dest) <= DmaSpan

InitDma ==
    /\ emu = [phase |-> "frame", scanline |-> 0, cycles_left |-> 0, cycles |-> 0]
    /\ cpu = cpu_reset
    /\ interrupts = interrupt_init
    /\ timers = timer_init
    /\ gfx = 0
    /\ hist = hist_init
    /\ dma = dma_init
    /\ mem = mem_init
    /\ input = input_init
    /\ rtc = rtc_init(RtcTime(0, 0))
    /\ regs = regs_reset

WriteDmaSad ==
    /\ \E n \in DmaChannels, value \in DmaSources :
          /\ OnlyChannel(n)
          /\ dma' = [channels |-> [dma.channels EXCEPT
                                      ![n] = mem_write32_dma_source(@, value)],
                     xfers |-> <<>>]
    /\ UNCHANGED <<emu, cpu, interrupts, timers, gfx, hist, mem, input, rtc, regs>>

WriteDmaDad ==
    /\ \E n \in DmaChannels, value \in DmaDests :
          /\ OnlyChannel(n)
          /\ dma' = [channels |-> [dma.channels EXCEPT
                                      ![n] = mem_write32_dma_dest(@, value)],
                     xfers |-> <<>>]
    /\ UNCHANGED <<emu, cpu, interrupts, timers, gfx, hist, mem, input, rtc, regs>>

WriteDmaCntL ==
    /\ \E n \in DmaChannels, value \in DmaCounts :
          /\ OnlyChannel(n)
          /\ dma' = [channels |-> [dma.channels EXCEPT
                                      ![n] = mem_write16_dma_count(@, value)],
                     xfers |-> <<>>]
    /\ UNCHANGED <<emu, cpu, interrupts, timers, gfx, hist, mem, input, rtc, regs>>

\* The transfer, if one starts, runs inside the write; nothing in it or
\* after it touches the interrupt controller.
WriteDmaCntH ==
    /\ \E n \in DmaChannels, value \in DmaControls, is_ch3 \in BOOLEAN :
          /\ OnlyChannel(n)
          /\ is_ch3 => dma.channels[n].count = 0
          /\ LET r == mem_write16_dma_control(dma.channels[n], n, value, is_ch3)
             IN  dma' = [channels |-> [dma.channels EXCEPT ![n] = r.channel],
                         xfers |-> r.xfers]
    /\ UNCHANGED <<emu, cpu, interrupts, timers, gfx, hist, mem, input, rtc, regs>>

\* dma_trigger as emu_frame calls it: type 1 on scanline 160, type 2 on
\* the scanlines before.
DmaTriggered ==
    /\ \A n \in 0..3 : dma.channels[n].enabled => WithinSpan(dma.channels[n])
    /\ \E trigger_type \in {1, 2}, is_ch3 \in BOOLEAN :
          /\ is_ch3 => \E n \in 0..3 : dma.channels[n].internal_count = 0
          /\ dma' = dma_trigger(dma, trigger_type, is_ch3)
    /\ UNCHANGED <<emu, cpu, interrupts, timers, gfx, hist, mem, input, rtc, regs>>

NextDma ==
    \/ WriteDmaSad
    \/ WriteDmaDad
    \/ WriteDmaCntL
    \/ WriteDmaCntH
    \/ DmaTriggered

SpecDma == InitDma /\ [][NextDma]_vars

----------------------------------------------------------------------------
(* Properties of the DMA controller, checked under SpecDma                 *)

\* The step per unit the address-control mode asks for, with 32-bit units:
\* 0 increment, 1 decrement, 2 fixed, 3 increment (and reload on repeat).
ModeStep(mode) == CASE mode = 0 -> 4 [] mode = 1 -> 0 - 4 [] mode = 2 -> 0 [] OTHER -> 4

\* C16: a write to DMAxCNT_H that finds the channel disabled and sets the
\* enable bit with start timing 0, 32-bit units and count N > 0 over source
\* X and destination Y runs one transfer inside the write, of exactly N
\* units of 4 bytes, unit i from X + i * step to Y + i * step, and leaves
\* the internal addresses advanced by N steps of their modes.
C16_ImmediateTransfer ==
    [][\A n \in DmaChannels, value \in DmaControls :
          LET d == dma.channels[n]
              r == mem_write16_dma_control(d, n, value, FALSE)
          IN  (/\ OnlyChannel(n)
               /\ ~d.enabled
               /\ TestBit(value, DMA_ENABLE)
               /\ StartMode(value) = 0
               /\ TestBit(value, DMA_32BIT)
               /\ ~TestBit(value, DMA_REPEAT)
               /\ d.count > 0
               /\ dma' = [channels |-> [dma.channels EXCEPT ![n] = r.channel],
                          xfers |-> r.xfers])
                 => /\ Len(dma'.xfers) = 1
                    /\ dma'.xfers[1].units = d.count
                    /\ dma'.xfers[1].size = 4
                    /\ dma'.xfers[1].src = d.source
                    /\ dma'.xfers[1].dst = d.dest
                    /\ dma'.xfers[1].src_step = ModeStep(SrcMode(value))
                    /\ dma'.xfers[1].dst_step = ModeStep(DstMode(value))
                    /\ dma'.channels[n].internal_source
                          = d.source + d.count * ModeStep(SrcMode(value))
                    /\ dma'.channels[n].internal_dest
                          = d.dest + d.count * ModeStep(DstMode(value))]_vars


\* C17: a transfer that completes leaves its channel disabled when the
\* repeat bit is 0 and enabled when it is 1; with repeat and destination
\* mode 3 the internal destination is set back to the programmed
\* destination, and the next repetition writes from the address this one
\* wrote from when this one started at the programmed destination.
C17_RepeatAndReload ==
    /\ [](\A i \in 1..Len(dma.xfers) :
             /\ dma.xfers[i].enabled_after = dma.xfers[i].repeat
             /\ (dma.xfers[i].repeat /\ dma.xfers[i].dst_mode = 3)
                   => dma.xfers[i].dst_after = dma.xfers[i].dest)
    /\ [][\A i \in 1..Len(dma.xfers), j \in 1..Len(dma'.xfers) :
             (/\ dma.xfers[i].channel = dma'.xfers[j].channel
              /\ dma.xfers[i].repeat
              /\ dma.xfers[i].dst_mode = 3
              /\ dma.xfers[i].dst = dma.xfers[i].dest)
                => dma'.xfers[j].dst = dma.xfers[i].dst]_vars

\* A repetition of a repeating transfer with destination mode 3 and an
\* incrementing source has run: it started at the programmed destination,
\* moved 1 unit or more, and the channel is still enabled with the internal
\* destination back at the programmed one and the source advanced.
C17_Witness ==
    \E n \in DmaChannels :
        /\ Len(dma.xfers) = 1
        /\ dma.xfers[1].channel = n
        /\ dma.xfers[1].repeat
        /\ dma.xfers[1].dst_mode = 3
        /\ dma.xfers[1].units > 0
        /\ dma.xfers[1].dst_step # 0
        /\ dma.xfers[1].src # dma.channels[n].source
        /\ dma.channels[n].enabled
        /\ dma.channels[n].internal_dest = dma.channels[n].dest


\* C18: when a transfer on channel n has completed and the channel's
\* irq_enable bit was set, the DMA_n flag (INT_DMA0 << n) is set in IF.
C18_DmaIrqRaised ==
    \A i \in 1..Len(dma.xfers) :
        dma.xfers[i].irq_enable
            => And16(interrupts.if_flag, INT_DMA0 * (2^dma.xfers[i].channel)) # 0

\* C19: a transfer started with a programmed count of 0 moves 0x4000 units
\* on channels 0, 1 and 2 and 0x10000 units on channel 3.
C19_ZeroCountIsMax ==
    \A i \in 1..Len(dma.xfers) :
        dma.xfers[i].programmed = 0
            => dma.xfers[i].units
                  = (IF dma.xfers[i].channel = 3 THEN \h10000 ELSE \h4000)

\* An address of the 28-bit bus.
InBus(addr) == addr >= 0 /\ addr < ADDR_LIMIT

\* C20: the source and destination address of every unit of every transfer
\* is below 0x10000000.  The addresses of a transfer move by a constant
\* step, so the first and the last unit bound them all.
C20_DmaAddressesInBus ==
    \A i \in 1..Len(dma.xfers) :
        dma.xfers[i].units > 0
            => /\ InBus(dma.xfers[i].src)
               /\ InBus(dma.xfers[i].dst)
               /\ InBus(dma.xfers[i].src
                          + (dma.xfers[i].units - 1) * dma.xfers[i].src_step)
               /\ InBus(dma.xfers[i].dst
                          + (dma.xfers[i].units - 1) * dma.xfers[i].dst_step)

----------------------------------------------------------------------------
(* Specification of the timer unit behind the bus: a program sets timers   *)
(* up in ascending order, each with one word store to TMxCNT (reload in    *)
(* the low halfword, control in the high one), and the frame driver calls  *)
(* timer_update between the stores (phase "bus"); once a flag is pending   *)
(* the program may turn to acknowledging interrupts with stores to IF      *)
(* (phase "ack"), which ends the timer activity followed.  hist holds the  *)
(* operation last performed: its name, the width, offset and value of a    *)
(* store, and IF as it was before.                                         *)

\* Number of timer_update calls followed.
TimerBudget == 2

\* Words stored to TMxCNT: prescaler 1 with IRQ counting from 0xFFFE;
\* prescaler 64 without IRQ; cascade with and without IRQ.
TimerWords == {\h00C0FFFE, \h0081FFFF, \h00C4FFFF, \h0084FFFF}

\* Cycle counts timer_update is called with.
TimerCycles == {1, 64}

BusPair == [timers |-> timers, interrupts |-> interrupts]

InitTimer ==
    /\ emu = [phase |-> "bus", scanline |-> 0, cycles_left |-> TimerBudget,
              cycles |-> 0]
    /\ cpu = cpu_reset
    /\ interrupts = interrupt_init
    /\ timers = timer_init
    /\ gfx = 0
    /\ hist = [last_op |-> "init", size |-> 0, offset |-> 0, value |-> 0,
               if_before |-> 0]
    /\ dma = dma_init
    /\ mem = mem_init
    /\ input = input_init
    /\ rtc = rtc_init(RtcTime(0, 0))
    /\ regs = regs_reset

WriteTimer ==
    /\ emu.phase = "bus"
    /\ \E n \in 0..3, value \in TimerWords :
          /\ \A m \in n..3 : timers[m].control = 0
          /\ LET P == mem_write32_io(BusPair, REG_TM0CNT_L + 4 * n, value)
             IN  /\ timers' = P.timers
                 /\ interrupts' = P.interrupts
          /\ hist' = [last_op |-> "write_timer", size |-> 32,
                      offset |-> REG_TM0CNT_L + 4 * n, value |-> value,
                      if_before |-> interrupts.if_flag]
    /\ UNCHANGED <<emu, cpu, gfx, dma, mem, input, rtc, regs>>

\* Stores to IE/IF: <<width, offset, value>>.
IfStores ==
    {<<8, REG_IF, \h08>>, <<8, REG_IF, \h30>>, <<8, REG_IF + 1, \hFF>>,
     <<16, REG_IF, \h0018>>, <<32, REG_IE, \h00100000>>, <<32, REG_IF, \h00000028>>}

mem_write_io(P, size, offset, value) ==
    CASE size = 8  -> mem_write8_io(P, offset, value)
      [] size = 16 -> mem_write16_io(P, offset, value)
      [] size = 32 -> mem_write32_io(P, offset, value)

WriteIf ==
    /\ interrupts.if_flag # 0
    /\ \E st \in IfStores :
          LET P == mem_write_io(BusPair, st[1], st[2], st[3])
          IN  /\ timers' = P.timers
              /\ interrupts' = P.interrupts
              /\ hist' = [last_op |-> "write_if", size |-> st[1], offset |-> st[2],
                          value |-> st[3], if_before |-> interrupts.if_flag]
    /\ emu' = [emu EXCEPT !.phase = "ack"]
    /\ UNCHANGED <<cpu, gfx, dma, mem, input, rtc, regs>>

TimerAdvance ==
    /\ emu.phase = "bus"
    /\ emu.cycles_left > 0
    /\ \E cycles \in TimerCycles :
          LET P == timer_update(BusPair, cycles)
          IN  /\ timers' = P.timers
              /\ interrupts' = P.interrupts
              /\ emu' = [emu EXCEPT !.cycles_left = @ - 1, !.cycles = cycles]
    /\ hist' = [last_op |-> "timer_update", size |-> 0, offset |-> 0, value |-> 0,
                if_before |-> interrupts.if_flag]
    /\ UNCHANGED <<cpu, gfx, dma, mem, input, rtc, regs>>

NextTimer ==
    \/ WriteTimer
    \/ WriteIf
    \/ TimerAdvance

SpecTimer == InitTimer /\ [][NextTimer]_vars

----------------------------------------------------------------------------
(* Timer counting *)

\* The counter after n increments from k, wrapping to the reload value r.
CounterAfter(k, r, n) ==
    IF n < 65536 - k THEN k + n
    ELSE r + ((n - (65536 - k)) % (65536 - r))

\* C21: after timer_update by c cycles, an enabled non-cascade timer has
\* counted (clock + c) div prescaler times and keeps the remainder in its
\* accumulator; its counter wrapped to the reload value each time it
\* passed 0xFFFF, and its TIMER_n flag is pending when it wrapped with
\* irq_enable set (and is as before when it did not wrap).
C21_TimerCounts ==
    [][hist'.last_op = "timer_update" =>
        \A i \in 0..3 :
            LET t == timers[i]
                acc == t.clock + emu'.cycles
                n == acc \div t.prescaler
            IN  (t.enabled /\ ~t.cascade) =>
                    /\ timers'[i].clock = acc % t.prescaler
                    /\ timers'[i].counter = CounterAfter(t.counter, t.reload, n)
                    /\ (n >= 65536 - t.counter /\ t.irq_enable)
                          => Bit(interrupts'.if_flag, 3 + i) = 1
                    /\ (n < 65536 - t.counter)
                          => Bit(interrupts'.if_flag, 3 + i)
                                = Bit(interrupts.if_flag, 3 + i)]_vars

\* After an update by 1 cycle and one by 64 cycles, a prescaler-64 timer
\* has wrapped to its reload value and keeps one cycle, and a prescaler-1
\* timer with a period of two has wrapped and raised its flag.
C21_Witness ==
    /\ hist.last_op = "timer_update"
    /\ emu.cycles = 64
    /\ \E i \in 0..3 :
          /\ timers[i].enabled /\ ~timers[i].cascade /\ ~timers[i].irq_enable
          /\ timers[i].prescaler = 64 /\ timers[i].counter = 65535
          /\ timers[i].clock = 1
          /\ Bit(interrupts.if_flag, 3 + i) = 0
    /\ \E i \in 0..3 :
          /\ timers[i].enabled /\ ~timers[i].cascade
          /\ timers[i].prescaler = 1 /\ timers[i].reload = 65534
          /\ Bit(interrupts.if_flag, 3 + i) = 1


----------------------------------------------------------------------------
(* Cascade chains *)

\* C22: when a cascade timer i (1 or 2) wraps during timer_update, having
\* been counted by the overflow of the timer before it, and timer i + 1 is
\* enabled in cascade mode, timer i + 1 is counted in turn: standing at
\* 0xFFFF with its IRQ enabled, it wraps and raises TIMER_(i+1).
C22_CascadeChain ==
    [][hist'.last_op = "timer_update" =>
        \A i \in 1..2 :
            ( /\ timers[i].enabled /\ timers[i].cascade /\ timers[i].irq_enable
              /\ Bit(interrupts.if_flag, 3 + i) = 0
              /\ Bit(interrupts'.if_flag, 3 + i) = 1
              /\ timers[i + 1].enabled /\ timers[i + 1].cascade
              /\ timers[i + 1].irq_enable
              /\ timers[i + 1].counter = 65535 )
            => Bit(interrupts'.if_flag, 4 + i) = 1]_vars


----------------------------------------------------------------------------
(* Acknowledging interrupts *)

\* The halfword of a store that lands on IF (offsets 0x202-0x203).
IfMask(size, offset, value) ==
    CASE size = 8 /\ offset = REG_IF      -> value
      [] size = 8 /\ offset = REG_IF + 1  -> value * 256
      [] size = 16 /\ offset = REG_IF     -> value
      [] size = 32 /\ offset = REG_IF     -> value % 65536
      [] size = 32 /\ offset = REG_IE     -> value \div 65536

\* C23: after a store of any width to IF, every IF bit whose bit in the
\* stored value is 1 is clear and every other IF bit is as it was before.
C23_IfWriteClears ==
    hist.last_op = "write_if" =>
        \A b \in 0..15 :
            Bit(interrupts.if_flag, b) =
                IF Bit(IfMask(hist.size, hist.offset, hist.value), b) = 1
                THEN 0 ELSE Bit(hist.if_before, b)

\* A halfword store of 0x0018 cleared TIMER0 and TIMER1 and left TIMER2
\* pending.
C23_Witness ==
    /\ hist.last_op = "write_if"
    /\ hist.size = 16
    /\ hist.if_before = 56
    /\ interrupts.if_flag = 32


----------------------------------------------------------------------------
(* Specification of the bus under its callers: the main loop sets the AI   *)
(* input byte and emu_frame runs input_update; the interpreter's loads and *)
(* stores reach the bus with the address the instruction computed, masked  *)
(* as the interpreter masks it; dma_execute moves units between the        *)
(* addresses of its internal registers.  hist holds the access last made;  *)
(* emu.cycles_left counts the accesses that may still change memory.       *)

BusM == [mem |-> mem, rtc |-> rtc]

Now0 == RtcTime(0, 0)

\* Button masks the main loop writes (none, A + Down).
AiInputs == {0, \h81}

\* Addresses computed by load and store instructions.
CpuAddrs == {EWRAM_START, EWRAM_START + 1, IO_START + REG_KEYINPUT}

\* The register value a store of each width writes.
StoreValue(size) ==
    CASE size = 8 -> \h5A [] size = 16 -> \h6655 [] size = 32 -> \h44332211

\* Source and destination addresses a DMA channel is programmed with.
DmaUnitSrcs == {EWRAM_START, EWRAM_START + 1}
DmaUnitDsts == {EWRAM_START + 4}

\* addr & ~3 for words, addr & ~1 for halfwords
AlignDown(addr, size) == addr - (addr % (size \div 8))

mem_read(M, size, addr) ==
    CASE size = 8  -> mem_read8(M, addr)
      [] size = 16 -> mem_read16(M, addr)
      [] size = 32 -> mem_read32(M, addr)

mem_write(M, size, addr, value) ==
    CASE size = 8  -> mem_write8(M, addr, value, Now0)
      [] size = 16 -> mem_write16(M, addr, value, Now0)
      [] size = 32 -> mem_write32(M, addr, value, Now0)

InitBus ==
    /\ emu = [phase |-> "bus", scanline |-> 0, cycles_left |-> BusSteps, cycles |-> 0]
    /\ cpu = cpu_reset
    /\ interrupts = interrupt_init
    /\ timers = timer_init
    /\ gfx = 0
    /\ hist = [last_op |-> "init", size |-> 0, addr |-> 0, dst |-> 0, value |-> 0]
    /\ dma = dma_init
    /\ mem = mem_init
    /\ input = input_init
    /\ rtc = rtc_init(Now0)
    /\ regs = regs_reset

SetAiInput ==
    /\ emu.cycles_left > 0
    /\ emu' = [emu EXCEPT !.cycles_left = @ - 1]
    /\ \E keys \in AiInputs :
          /\ mem' = mem_set_ai_input(mem, keys)
          /\ hist' = [last_op |-> "set_ai", size |-> 8, addr |-> EWRAM_START + AI_INPUT,
                      dst |-> 0, value |-> keys]
    /\ UNCHANGED <<cpu, interrupts, timers, gfx, dma, input, rtc, regs>>

InputUpdate ==
    /\ emu.cycles_left > 0
    /\ emu' = [emu EXCEPT !.cycles_left = @ - 1]
    /\ LET u == input_update(input, BusM, Now0)
       IN  /\ input' = u.input
           /\ mem' = u.bus.mem
           /\ rtc' = u.bus.rtc
    /\ hist' = [last_op |-> "input_update", size |-> 16,
                addr |-> IO_START + REG_KEYINPUT, dst |-> 0,
                value |-> KeysToGba(input'.current_keys)]
    /\ UNCHANGED <<cpu, interrupts, timers, gfx, dma, regs>>

\* STR / STRH / STRB: words and halfwords are stored at the masked address.
CpuStore ==
    /\ emu.cycles_left > 0
    /\ emu' = [emu EXCEPT !.cycles_left = @ - 1]
    /\ \E size \in {8, 16, 32}, addr \in CpuAddrs :
          LET M == mem_write(BusM, size, AlignDown(addr, size), StoreValue(size))
          IN  /\ mem' = M.mem
              /\ rtc' = M.rtc
              /\ hist' = [last_op |-> "store", size |-> size, addr |-> addr,
                          dst |-> 0, value |-> StoreValue(size)]
    /\ UNCHANGED <<cpu, interrupts, timers, gfx, dma, input, regs>>

\* LDR / LDRH / LDRB.
CpuLoad ==
    /\ \E size \in {8, 16, 32}, addr \in CpuAddrs :
          hist' = [last_op |-> "load", size |-> size, addr |-> addr, dst |-> 0,
                   value |-> mem_read(BusM, size, AlignDown(addr, size))]
    /\ UNCHANGED <<emu, cpu, interrupts, timers, gfx, dma, mem, input, rtc, regs>>

\* One iteration of the transfer loop of dma_execute.
DmaUnit ==
    /\ emu.cycles_left > 0
    /\ emu' = [emu EXCEPT !.cycles_left = @ - 1]
    /\ \E size \in {16, 32}, src \in DmaUnitSrcs, dst \in DmaUnitDsts :
          LET value == mem_read(BusM, size, src)
              M == mem_write(BusM, size, dst, value)
          IN  /\ mem' = M.mem
              /\ rtc' = M.rtc
              /\ hist' = [last_op |-> "dma", size |-> size, addr |-> src,
                          dst |-> dst, value |-> value]
    /\ UNCHANGED <<cpu, interrupts, timers, gfx, dma, input, regs>>

NextBus ==
    \/ SetAiInput
    \/ InputUpdate
    \/ CpuStore
    \/ CpuLoad
    \/ DmaUnit

SpecBus == InitBus /\ [][NextBus]_vars

----------------------------------------------------------------------------
(* KEYINPUT *)

KEYINPUT == IO_START + REG_KEYINPUT

\* C24: a CPU store to KEYINPUT (0x04000130-0x04000131) leaves the value
\* read from KEYINPUT as it was.
C24_KeyinputReadOnly ==
    [][(hist'.last_op = "store" /\ AlignDown(hist'.addr, hist'.size) = KEYINPUT)
          => mem_read16([mem |-> mem', rtc |-> rtc'], KEYINPUT)
                = mem_read16(BusM, KEYINPUT)]_vars

----------------------------------------------------------------------------
(* Alignment of bus accesses *)

\* The little-endian value of the size / 8 bytes at addr.
BytesAt(M, size, addr) ==
    LET b(i) == mem_read8(M, addr + i)
    IN  CASE size = 8  -> b(0)
          [] size = 16 -> b(0) + 256 * b(1)
          [] size = 32 -> b(0) + 256 * b(1) + 65536 * b(2) + 16777216 * b(3)

\* Memory after the size / 8 bytes of value are stored at addr.
StoredAt(M, size, addr, value) ==
    LET w(N, i) == mem_write8(N, addr + i, ByteOf(value, i), Now0)
    IN  CASE size = 8  -> w(M, 0)
          [] size = 16 -> w(w(M, 0), 1)
          [] size = 32 -> w(w(w(w(M, 0), 1), 2), 3)

\* C25: a 32-bit access to address a reads or writes the word at a & ~3
\* and a 16-bit access the halfword at a & ~1, whether the CPU or the DMA
\* controller makes it.
C25_AlignedAccess ==
    [][LET h == hist'
       IN  /\ h.last_op = "load" =>
                 h.value = BytesAt(BusM, h.size, AlignDown(h.addr, h.size))
           /\ h.last_op = "store" =>
                 mem' = StoredAt(BusM, h.size, AlignDown(h.addr, h.size), h.value).mem
           /\ h.last_op = "dma" =>
                 /\ h.value = BytesAt(BusM, h.size, AlignDown(h.addr, h.size))
                 /\ mem' = StoredAt(BusM, h.size, AlignDown(h.dst, h.size),
                                    h.value).mem]_vars


----------------------------------------------------------------------------
(* Specification of the flash chip: the program writes bytes to the flash  *)
(* region and reads offsets 0 and 1.  hist holds the access last made, the *)
(* last three writes, and whether the ID-entry command sequence has been   *)
(* completed with no ID-exit sequence completed after it.                  *)

\* Byte writes to the flash region: <<offset, value>>.
FlashStores ==
    {<<\h5555, \hAA>>, <<\h2AAA, \h55>>, <<\h5555, \h90>>, <<\h5555, \hF0>>,
     <<\h5555, \hA0>>, <<0, \h12>>, <<1, \h34>>}

CommandSeq(cmd) == << <<\h5555, \hAA>>, <<\h2AAA, \h55>>, <<\h5555, cmd>> >>

\* The last three writes after one more.
LastThree(writes, st) ==
    IF Len(writes) < 3 THEN Append(writes, st) ELSE Append(Tail(writes), st)

InitFlash ==
    /\ emu = [phase |-> "bus", scanline |-> 0, cycles_left |-> 0, cycles |-> 0]
    /\ cpu = cpu_reset
    /\ interrupts = interrupt_init
    /\ timers = timer_init
    /\ gfx = 0
    /\ hist = [last_op |-> "init", offset |-> 0, value |-> 0, writes |-> <<>>,
               id_mode |-> FALSE]
    /\ dma = dma_init
    /\ mem = mem_init
    /\ input = input_init
    /\ rtc = rtc_init(Now0)
    /\ regs = regs_reset

FlashWrite ==
    /\ \E st \in FlashStores :
          LET M == mem_write8(BusM, FLASH_START + st[1], st[2], Now0)
              w == LastThree(hist.writes, st)
          IN  /\ mem' = M.mem
              /\ rtc' = M.rtc
              /\ hist' = [last_op |-> "write", offset |-> st[1], value |-> st[2],
                          writes |-> w,
                          id_mode |-> IF w = CommandSeq(\h90) THEN TRUE
                                      ELSE IF w = CommandSeq(\hF0) THEN FALSE
                                      ELSE hist.id_mode]
    /\ UNCHANGED <<emu, cpu, interrupts, timers, gfx, dma, input, regs>>

FlashRead ==
    /\ \E offset \in {0, 1} :
          hist' = [hist EXCEPT !.last_op = "read", !.offset = offset,
                               !.value = mem_read8(BusM, FLASH_START + offset)]
    /\ UNCHANGED <<emu, cpu, interrupts, timers, gfx, dma, mem, input, rtc, regs>>

NextFlash ==
    \/ FlashWrite
    \/ FlashRead

SpecFlash == InitFlash /\ [][NextFlash]_vars

----------------------------------------------------------------------------
(* Flash byte programming and chip identification *)

\* C26: the write that follows the command sequence 0x5555<-0xAA,
\* 0x2AAA<-0x55, 0x5555<-0xA0 stores its byte at its offset, whatever the
\* offset and the value, and leaves the flash in normal mode.
C26_ProgramOneByte ==
    [][(hist'.last_op = "write" /\ hist.writes = CommandSeq(\hA0))
          => /\ mem'.sram[hist'.offset] = hist'.value
             /\ mem'.flash_state = 0]_vars

\* C27: a read at flash offset 0 or 1 returns 0xC2 or 0x09 when the
\* ID-entry sequence (ending in 0x5555<-0x90) has been completed and no
\* ID-exit sequence (ending in 0x5555<-0xF0) has been completed since, and
\* the stored byte otherwise.
C27_IdModeReads ==
    hist.last_op = "read" =>
        hist.value = IF hist.id_mode
                     THEN (IF hist.offset = 0 THEN \hC2 ELSE \h09)
                     ELSE mem.sram[hist.offset]


----------------------------------------------------------------------------
(* Specification of the cartridge GPIO port and the clock behind it: the   *)
(* program writes the low bytes of the GPIO data, direction and control    *)
(* registers and reads the data register; the command byte it clocks in is *)
(* one of RtcCommands.  hist holds the access last made and the number of  *)
(* SCK rising edges the port has seen with CS high since CS last rose.     *)

\* Bits clocked in one transaction.
RtcBits == 10

\* Command bytes: read time, read status, reset, and one the clock does
\* not know.
RtcCommands == {\h66, \h62, \h60, \h61}

\* Clock readings: 0:00:01 and 0:01:02.
RtcTimes == {RtcTime(1, 0), RtcTime(2, 1)}

\* <<register, value>>: SCK, SIO and CS levels; direction; control.
GpioStores ==
    {<<0, v>> : v \in 0..7} \cup {<<2, 7>>} \cup {<<4, 0>>, <<4, 1>>}

InitRtc ==
    /\ emu = [phase |-> "bus", scanline |-> 0, cycles_left |-> 0, cycles |-> 0]
    /\ cpu = cpu_reset
    /\ interrupts = interrupt_init
    /\ timers = timer_init
    /\ gfx = 0
    /\ hist = [last_op |-> "init", reg |-> 0, value |-> 0, edges |-> 0]
    /\ dma = dma_init
    /\ mem = mem_init
    /\ input = input_init
    /\ \E now \in RtcTimes : rtc = rtc_init(now)
    /\ regs = regs_reset

\* The bit an SCK rising edge would clock in continues a command byte.
CommandBit(data) ==
    LET cs_rise == Bit(data, 2) = 1 /\ rtc.last_cs = 0
        k == IF cs_rise THEN 0 ELSE rtc.bit_index
        sofar == IF cs_rise THEN 0 ELSE rtc.data_buffer[0]
    IN  (Bit(data, 0) = 1 /\ rtc.last_sck = 0 /\ Bit(data, 2) = 1)
            => ((k < 8 /\ (cs_rise \/ rtc.writing))
                   => \E c \in RtcCommands :
                         c % (2^(k + 1)) = sofar + Bit(data, 1) * (2^k))

GpioWrite ==
    /\ \E st \in GpioStores, now \in RtcTimes :
          LET M == mem_write8(BusM, GPIO_DATA + st[1], st[2], now)
              sck_rise == Bit(mem.gpio_data, 0) = 0 /\ Bit(M.mem.gpio_data, 0) = 1
              cs_rise == Bit(mem.gpio_data, 2) = 0 /\ Bit(M.mem.gpio_data, 2) = 1
              cs == Bit(M.mem.gpio_data, 2) = 1
              base == IF cs_rise THEN 0 ELSE hist.edges
          IN  /\ CommandBit(M.mem.gpio_data)
              /\ (sck_rise /\ cs) => base < RtcBits
              /\ mem' = M.mem
              /\ rtc' = M.rtc
              /\ hist' = [last_op |-> "write", reg |-> st[1], value |-> st[2],
                          edges |-> IF sck_rise /\ cs THEN base + 1 ELSE base]
    /\ UNCHANGED <<emu, cpu, interrupts, timers, gfx, dma, input, regs>>

GpioRead ==
    /\ \E now \in RtcTimes :
          /\ rtc' = rtc_update(rtc, now)
          /\ hist' = [hist EXCEPT !.last_op = "read", !.reg = 0,
                         !.value = mem_read8([mem |-> mem, rtc |-> rtc'], GPIO_DATA)]
    /\ UNCHANGED <<emu, cpu, interrupts, timers, gfx, dma, mem, input, regs>>

NextRtc ==
    \/ GpioWrite
    \/ GpioRead

SpecRtc == InitRtc /\ [][NextRtc]_vars

----------------------------------------------------------------------------
(* The GPIO port and the serial protocol of the clock *)

\* The protocol state of the clock.
RtcProtocol(clk) ==
    <<clk.command, clk.bit_index, clk.data_buffer, clk.reading, clk.writing,
      clk.last_sck, clk.last_cs>>

\* C28: a write to the GPIO registers made while bit 0 of the GPIO control
\* register is clear changes no protocol state of the clock.
C28_GpioGated ==
    [][(hist'.last_op = "write" /\ Bit(mem.gpio_control, 0) = 0)
          => RtcProtocol(rtc') = RtcProtocol(rtc)]_vars

\* C29: the bit index equals the number of SCK rising edges the port has
\* seen with CS high since the last CS rising edge: it is 0 after that
\* edge, advances by one on each such SCK edge, and is left alone by every
\* other GPIO write (CS low, SCK falling, SCK level).
C29_BitIndexCountsEdges == rtc.bit_index = hist.edges

\* C30: in a read transaction, after the k-th SCK rising edge that follows
\* the eight edges of the command byte (k = 0, 1, 2, ...), the clock drives
\* SIO with bit k of the response it prepared, starting with bit 0 of the
\* first response byte.
C30_ReadShiftsOut ==
    (rtc.reading /\ hist.edges >= 9) =>
        rtc_gpio_read(rtc)
            = 2 * Bit(rtc.data_buffer[(hist.edges - 9) \div 8], (hist.edges - 9) % 8)


----------------------------------------------------------------------------
(* Specification of one BIOS call: the CPU at the ROM entry after reset,   *)
(* in ARM state or after a BX into Thumb code, with any of a few values in *)
(* R0..R2 and a compressed block in EWRAM, executes one SWI through        *)
(* cpu_step.                                                               *)

\* SWI comment fields offered: the calls the handlers know, and 7, 9, 10,
\* 16 and 255, which neither handler has a case for.
SwiNumbers == {0, 1, 2, 3, 4, 5, 6, 7, 8, 9, 10, 11, 12, 13, 14, 16, 17, 18, 20, 21, 255}

\* Values of R0 (number, source), R1 (divisor, destination) and R2 (the
\* length and mode word of CpuSet: bit 26 word size, bit 24 fixed source).
R0Values == {EWRAM_START, 7}
R1Values == {EWRAM_START + 4, EWRAM_START + 6, 0, 2}
R2Values == {1, (2^26) + 1, (2^24) + 2}

\* EWRAM contents: a header (type, size in bits 31..8) and a flag byte
\* followed by data.  The first is a run of two bytes 0x5A, the second a
\* single literal byte.
EwramImages ==
    {<<\h30, 2, 0, 0, \h80, \h5A, 0, 0>>, <<\h10, 1, 0, 0, 0, \h5A, 0, 0>>}

LoadEwram(m, image) ==
    [m EXCEPT !.ewram = [o \in 0..(EwramBytes - 1) |->
                            IF o < Len(image) THEN image[o + 1] ELSE 0]]

InitSwi ==
    /\ emu = [phase |-> "swi", scanline |-> 0, cycles_left |-> 0, cycles |-> 0]
    /\ cpu = cpu_reset
    /\ interrupts = interrupt_init
    /\ timers = timer_init
    /\ gfx = 0
    /\ hist = [last_op |-> "init", comment |-> 0]
    /\ dma = dma_init
    /\ \E image \in EwramImages : mem = LoadEwram(mem_init, image)
    /\ input = input_init
    /\ rtc = rtc_init(Now0)
    /\ \E a \in R0Values, b \in R1Values, c \in R2Values :
          regs = [regs_reset EXCEPT !.r0 = a, !.r1 = b, !.r2 = c]

\* BX to the Thumb code at the ROM entry.
EnterThumb ==
    /\ emu.phase = "swi"
    /\ ~cpu.thumb_mode
    /\ LET out == cpu_step(cpu, BusPair, Instr("BX", ROM_ENTRY + 1, 0))
       IN  cpu' = out.cpu
    /\ hist' = [hist EXCEPT !.last_op = "bx"]
    /\ UNCHANGED <<emu, interrupts, timers, gfx, dma, mem, input, rtc, regs>>

\* cpu_step on a SWI instruction of the current instruction set.
SwiStep ==
    /\ emu.phase = "swi"
    /\ \E n \in SwiNumbers :
          LET ins == Instr(IF cpu.thumb_mode THEN "T_SWI" ELSE "SWI", n, 0)
              out == cpu_step(cpu, BusPair, ins)
              M   == swi_mem(cpu.thumb_mode, regs, BusM, n)
          IN  /\ cpu' = out.cpu
              /\ regs' = swi_regs(cpu.thumb_mode, regs, n)
              /\ mem' = M.mem
              /\ rtc' = M.rtc
              /\ emu' = [emu EXCEPT !.phase = "done", !.cycles = out.cycles]
              /\ hist' = [last_op |-> "swi", comment |-> n]
    /\ UNCHANGED <<interrupts, timers, gfx, dma, input>>

NextSwi ==
    \/ EnterThumb
    \/ SwiStep

SpecSwi == InitSwi /\ [][NextSwi]_vars

\* C31: a SWI whose comment field has no case in the handler that executes
\* it changes none of R0..R3, R13, R14, leaves CPSR, SPSR, the halted flag,
\* the instruction set and memory as they were, and advances the PC to the
\* following instruction (by 4 in ARM state, by 2 in Thumb state), which is
\* the instruction cpu_step fetches next.
C31_UnknownSwiReturns ==
    [][(hist'.last_op = "swi"
        /\ hist'.comment \notin
              (IF cpu.thumb_mode THEN ThumbBiosCalls ELSE ArmBiosCalls))
       => /\ regs' = regs
          /\ mem' = mem
          /\ cpu' = [cpu EXCEPT !.r15 = @ + (IF cpu.thumb_mode THEN 2 ELSE 4)]
          /\ Fetches(cpu')
          /\ FetchAddr(cpu') = FetchAddr(cpu) + (IF cpu.thumb_mode THEN 2 ELSE 4)]_vars

\* An unknown SWI has been executed in Thumb state with operands in R0..R2.
C31_Witness ==
    /\ hist.last_op = "swi"
    /\ hist.comment = 255
    /\ cpu.thumb_mode
    /\ cpu.r15 = ROM_ENTRY + 6
    /\ regs.r0 = 7
    /\ regs.r1 = 2


----------------------------------------------------------------------------
(* Specification of the library interface (python_api.c): after emu_init,  *)
(* any sequence of emu_write_memory, emu_step and emu_reset.  This         *)
(* interface owns no timer unit, DMA controller or clock.  The ROM is      *)
(* either a branch to itself at the entry or a Halt call there, so that    *)
(* the CPU state after the first cpu_step of cpu_execute_frame is the      *)
(* state at the end of the frame (IE is never written: no IRQ is taken).   *)

EmuWrites ==
    {<<EWRAM_START, \h5A>>, <<EWRAM_START + 1, \h11>>,
     <<IO_START + REG_KEYINPUT, \h5A>>, <<FLASH_START, \h12>>}

RomPrograms == {Instr("B", -8, 0), Instr("SWI", 2, 0)}

\* The memsets of emu_reset: EWRAM (with the AI input byte) and io_regs.
emu_reset_memory(m) ==
    [m EXCEPT !.ewram = [o \in 0..(EwramBytes - 1) |-> 0],
              !.ai_input = 0,
              !.keyinput = 0]

InitReset ==
    /\ emu = [phase |-> "api", scanline |-> 0, cycles_left |-> 0, cycles |-> 0]
    /\ cpu = cpu_reset
    /\ interrupts = interrupt_init
    /\ timers = timer_init
    /\ gfx = 0
    /\ hist = [last_op |-> "init"]
    /\ dma = dma_init
    /\ mem = mem_init
    /\ input = input_init
    /\ rtc = rtc_init(Now0)
    /\ regs = regs_reset

EmuWriteMemory ==
    /\ emu.phase = "api"
    /\ \E w \in EmuWrites : mem' = mem_write8(BusM, w[1], w[2], Now0).mem
    /\ hist' = [last_op |-> "write"]
    /\ UNCHANGED <<emu, cpu, interrupts, timers, gfx, dma, input, rtc, regs>>

EmuStep ==
    /\ emu.phase = "api"
    /\ \E buttons \in AiInputs, ins \in RomPrograms :
          LET u == input_update(input,
                                [mem |-> mem_set_ai_input(mem, buttons), rtc |-> rtc],
                                Now0)
              out == cpu_step(cpu, BusPair, ins)
          IN  /\ input' = u.input
              /\ mem' = u.bus.mem
              /\ cpu' = out.cpu
              /\ regs' = IF out.op = "SWI" THEN swi_regs(FALSE, regs, ins.a) ELSE regs
    /\ interrupts' = interrupt_update_vcount(
                         interrupt_update_vcount(interrupts, 0), VBLANK_LINE)
    /\ gfx' = VISIBLE_LINES
    /\ hist' = [last_op |-> "step"]
    /\ UNCHANGED <<emu, timers, dma, rtc>>

EmuReset ==
    /\ emu.phase = "api"
    /\ cpu' = cpu_reset
    /\ regs' = regs_reset
    /\ mem' = emu_reset_memory(mem)
    /\ interrupts' = interrupt_init
    /\ gfx' = 0
    /\ hist' = [last_op |-> "reset"]
    /\ UNCHANGED <<emu, timers, dma, input, rtc>>

NextReset ==
    \/ EmuWriteMemory
    \/ EmuStep
    \/ EmuReset

SpecReset == InitReset /\ [][NextReset]_vars

\* C32: right after emu_reset the CPU registers, work RAM, the keypad
\* register of the I/O block, the interrupt controller, the timers and the
\* DMA channels are as they were right after emu_init.
C32_ResetRestoresInit ==
    hist.last_op = "reset" =>
        /\ cpu = cpu_reset
        /\ regs = regs_reset
        /\ mem.ewram = mem_init.ewram
        /\ mem.ai_input = mem_init.ai_input
        /\ mem_read16(BusM, IO_START + REG_KEYINPUT) = mem_read16([mem |-> mem_init, rtc |-> rtc], IO_START + REG_KEYINPUT)
        /\ interrupts = interrupt_init
        /\ timers = timer_init
        /\ dma = dma_init


----------------------------------------------------------------------------
(* Specification of a short CPU loop: the loop of SpecCpu entered after    *)
(* reset with StepBudget cycles left, IE bit 0 and IME set or clear, and   *)
(* INT_VBLANK pending.                                                     *)

StepBudget == 6

InitStep ==
    /\ emu = [phase |-> "step", scanline |-> VBLANK_LINE,
              cycles_left |-> StepBudget, cycles |-> 0]
    /\ cpu = cpu_reset
    /\ \E e \in {0, 1}, m \in {0, 1} :
          interrupts =
              [interrupt_update_vcount(
                   [interrupt_init EXCEPT !.last_scanline = VBLANK_LINE - 1],
                   VBLANK_LINE)
               EXCEPT !.ie = e, !.ime = m]
    /\ timers = timer_init
    /\ gfx = 0
    /\ hist = [hist_init EXCEPT !.vblank_raises = 1, !.dma_type = 1]
    /\ dma = dma_init
    /\ mem = mem_init
    /\ input = input_init
    /\ rtc = rtc_init(RtcTime(0, 0))
    /\ regs = regs_reset

SpecStep == InitStep /\ [][NextCpu]_vars

\* C33: every cpu_step of the scanline's CPU loop returns at least one
\* cycle, whatever path it takes (invalid PC, BIOS redirect, an instruction
\* executed, skipped or not implemented), and the remaining-cycle budget is
\* strictly smaller after it; the budget never leaves 0..StepBudget, so the
\* loop runs at most StepBudget steps.  A halted CPU is charged one cycle.
C33_StepsConsumeBudget ==
    /\ [](emu.cycles_left \in 0..StepBudget)
    /\ [](cpu_step([cpu EXCEPT !.halted = TRUE], BusPair, Instr("none", 0, 0)).cycles = 1)
    /\ [][(emu.phase = "step" /\ emu'.phase = "timer")
          => /\ emu.cycles_left > 0
             /\ emu'.cycles >= 1
             /\ emu'.cycles_left < emu.cycles_left]_vars

\* cpu_step has taken the invalid-PC path and returned its cycles.
C33_Witness ==
    /\ emu.phase = "timer"
    /\ hist.last_op = "pc_reset"
    /\ emu.cycles = 3
    /\ emu.cycles_left = 0


----------------------------------------------------------------------------
(* Properties of the DMA control register, checked under SpecDma           *)

\* C34: a 16-bit write to DMAxCNT_H that sets the enable bit while the
\* channel is disabled, whatever was written and transferred before, starts
\* one latch and, for immediate timing, exactly one transfer; that transfer
\* (and the channel's control word, for other timings) carries the value
\* written, not the new low byte combined with the old high byte.
C34_OneLatchFullControl ==
    [][\A n \in DmaChannels, value \in DmaControls :
          LET d == dma.channels[n]
              r == mem_write16_dma_control(d, n, value, FALSE)
          IN  (/\ OnlyChannel(n)
               /\ ~d.enabled
               /\ TestBit(value, DMA_ENABLE)
               /\ d.count > 0
               /\ dma' = [channels |-> [dma.channels EXCEPT ![n] = r.channel],
                          xfers |-> r.xfers])
                 => IF StartMode(value) = 0
                    THEN /\ Len(dma'.xfers) = 1
                         /\ dma'.xfers[1].control = value
                    ELSE /\ Len(dma'.xfers) = 0
                         /\ dma'.channels[n].control = value]_vars


\* C35: once a transfer of a channel without repeat has completed, DMAxCNT_H
\* of that channel reads with the enable bit (bit 15) clear, so a loop
\* polling the bit ends.
C35_EnableReadsClear ==
    \A i \in 1..Len(dma.xfers) :
        LET x == dma.xfers[i]
            d == dma.channels[x.channel]
        IN  (~x.repeat /\ ~d.enabled)
                => ~TestBit(mem_read16_dma_control(d), DMA_ENABLE)


----------------------------------------------------------------------------
(* Specification of the timer reload register: 16-bit stores to TMxCNT_L   *)
(* and TMxCNT_H of timer 0 between calls of timer_update.                  *)

ReloadValues == {\h1234, \hFFFE, \h00FF}

\* TMxCNT_H values: stopped; running at prescaler 1.
ControlValues == {0, TIMER_ENABLE}

WriteControl ==
    /\ emu.phase = "bus"
    /\ \E n \in {0}, value \in ControlValues :
          LET offset == REG_TM0CNT_L + 4 * n + 2
              P == mem_write16_io(BusPair, offset, value)
          IN  /\ timers' = P.timers
              /\ interrupts' = P.interrupts
              /\ hist' = [last_op |-> "write_control", size |-> 16,
                          offset |-> offset, value |-> value,
                          if_before |-> interrupts.if_flag]
    /\ UNCHANGED <<emu, cpu, gfx, dma, mem, input, rtc, regs>>

WriteReload ==
    /\ emu.phase = "bus"
    /\ \E n \in {0}, value \in ReloadValues :
          LET offset == REG_TM0CNT_L + 4 * n
              P == mem_write16_io(BusPair, offset, value)
          IN  /\ timers' = P.timers
              /\ interrupts' = P.interrupts
              /\ hist' = [last_op |-> "write_reload", size |-> 16,
                          offset |-> offset, value |-> value,
                          if_before |-> interrupts.if_flag]
    /\ UNCHANGED <<emu, cpu, gfx, dma, mem, input, rtc, regs>>

NextReload ==
    \/ WriteControl
    \/ WriteReload
    \/ TimerAdvance

SpecReload == InitTimer /\ [][NextReload]_vars

\* C36: after a 16-bit store of v to TMxCNT_L the reload value of timer x
\* is v, whether the timer is running or stopped and whatever its counter.
C36_ReloadIsValueWritten ==
    hist.last_op = "write_reload" =>
        timers[(hist.offset - REG_TM0CNT_L) \div 4].reload = hist.value


----------------------------------------------------------------------------
(* Properties of the BIOS calls, checked under SpecSwi                     *)

\* C37: a BIOS call made with SWI in ARM state leaves R0..R3, R13, memory
\* and the halted flag as the same call made in Thumb state from the same
\* registers and memory would.
C37_ThumbSwiAsArm ==
    [][(hist'.last_op = "swi" /\ ~cpu.thumb_mode)
       => /\ regs' = swi_regs(TRUE, regs, hist'.comment)
          /\ mem' = swi_mem(TRUE, regs, BusM, hist'.comment).mem
          /\ cpu'.halted = thumb_swi(cpu, hist'.comment).halted]_vars


----------------------------------------------------------------------------
(* Loads of R15 by MOV, LDR and LDM *)

\* The ARM instructions that load an address into R15 without restoring the
\* CPSR: MOV PC,#t, SUB PC,LR,#n, LDR PC,[..] and LDM ..,{..,PC}.
LoadsPc(ins) ==
    \/ ins.op \in {"MOV_PC", "SUB_PC_LR", "LDR_PC"}
    \/ ins.op = "LDM_PC" /\ ins.b = 0

\* The address such an instruction loads into R15.
LoadedTarget(c, ins) ==
    IF ins.op = "SUB_PC_LR" THEN c.r14 - ins.a ELSE ins.a

\* C38: after an ARM instruction loads the address t of an ARM instruction
\* in ROM into R15 by a data-processing operation, an LDR or an LDM, the
\* next fetch reads t.
C38_LoadedPcIsNextFetch ==
    [][\A ins \in FetchSet(cpu, "any") :
          LET t == LoadedTarget(cpu, ins)
          IN  (/\ emu.phase = "step"
               /\ Fetches(cpu)
               /\ ~cpu.thumb_mode
               /\ LoadsPc(ins)
               /\ t >= ROM_ENTRY /\ t % 2 = 0 /\ ~InvalidTarget(t)
               /\ hist'.last_op = ins.op
               /\ cpu' = cpu_step(cpu, [timers |-> timers, interrupts |-> interrupts], ins).cpu)
                 => FetchAddr(cpu') = t]_vars


----------------------------------------------------------------------------
(* Specification of the display status register: the scanline updates of   *)
(* the frame loop, one scanline after the other, and CPU stores to          *)
(* DISPSTAT between them.                                                   *)

REG_VCOUNT == 6

\* mem_read8 of DISPSTAT and VCOUNT: the live values of the interrupt state.
mem_read8_io(state, offset) ==
    CASE offset \in {REG_VCOUNT, REG_VCOUNT + 1} -> ByteOf(state.vcount, offset - REG_VCOUNT)
      [] offset \in {REG_DISPSTAT, REG_DISPSTAT + 1} ->
            ByteOf(state.dispstat, offset - REG_DISPSTAT)
      [] OTHER -> 0

mem_read16_io(state, offset) ==
    mem_read8_io(state, offset) + 256 * mem_read8_io(state, offset + 1)

\* Stores to DISPSTAT: <<width, offset, value>>.  0x0008 enables the VBlank
\* interrupt, 0xA028 also the VCount interrupt at line 160.
DispstatStores ==
    {<<16, REG_DISPSTAT, \h0008>>, <<16, REG_DISPSTAT, \hA028>>,
     <<8, REG_DISPSTAT, \h09>>, <<8, REG_DISPSTAT + 1, \h00>>}

InitDispstat ==
    /\ emu = [phase |-> "bus", scanline |-> 0, cycles_left |-> 0, cycles |-> 0]
    /\ cpu = cpu_reset
    /\ interrupts = interrupt_init
    /\ timers = timer_init
    /\ gfx = 0
    /\ hist = [last_op |-> "none", value |-> 0]
    /\ dma = dma_init
    /\ mem = mem_init
    /\ input = input_init
    /\ rtc = rtc_init(RtcTime(0, 0))
    /\ regs = regs_reset

\* The top of the scanline loop body for the next scanline; after the last
\* scanline the next frame starts at scanline 0.
ScanlineUpdate ==
    /\ emu.phase = "bus"
    /\ LET scanline == (emu.scanline + 1) % TOTAL_SCANLINES
       IN  /\ emu' = [emu EXCEPT !.scanline = scanline]
           /\ interrupts' = interrupt_update_vcount(interrupts, scanline)
    /\ hist' = [last_op |-> "vcount", value |-> 0]
    /\ UNCHANGED <<cpu, timers, gfx, dma, mem, input, rtc, regs>>

WriteDispstat ==
    /\ emu.phase = "bus"
    /\ \E st \in DispstatStores :
          LET P == mem_write_io(BusPair, st[1], st[2], st[3])
          IN  /\ timers' = P.timers
              /\ interrupts' = P.interrupts
              /\ hist' = [last_op |-> "write_dispstat", value |-> st[3]]
    /\ UNCHANGED <<emu, cpu, gfx, dma, mem, input, rtc, regs>>

NextDispstat ==
    \/ ScanlineUpdate
    \/ WriteDispstat

SpecDispstat == InitDispstat /\ [][NextDispstat]_vars

\* C39: bit 0 of DISPSTAT as read over the bus is 1 exactly while VCOUNT
\* reads 160..227, whatever the CPU has stored to DISPSTAT.
C39_VBlankFlagFollowsVCount ==
    (mem_read8_io(interrupts, REG_DISPSTAT) % 2 = 1)
        <=> (mem_read16_io(interrupts, REG_VCOUNT) \in VBLANK_LINE..(TOTAL_SCANLINES - 1))


----------------------------------------------------------------------------
(* Flash writes outside byte programming, checked under SpecFlash *)

\* C40: a write to the flash region that does not follow a byte-program
\* command sequence (the last three writes were not 0x5555<-0xAA,
\* 0x2AAA<-0x55, 0x5555<-0xA0, and the flash is not in byte-program mode)
\* leaves the flash contents as they were.
C40_OnlyProgramWritesStore ==
    [][(/\ hist'.last_op = "write"
        /\ hist.writes # CommandSeq(\hA0)
        /\ mem.flash_state # 3)
          => mem'.sram = mem.sram]_vars

====
